---- MODULE Spec2Model ----
(***************************************************************************)
(* A model of the seleniumx WebDriver client: the HTTP transport wrapper   *)
(* with its process-wide client singletons, the command executor, the      *)
(* error handler, the session (driver) life cycle and the local driver     *)
(* service supervisor.                                                     *)
(***************************************************************************)
EXTENDS Integers, Sequences, FiniteSets, TLC

(***************************************************************************)
(* JSON / Python values.  Every value carries a type tag so that values of *)
(* different Python types can be compared (7 == "7" is False in Python).   *)
(***************************************************************************)
JNull == [t |-> "null"]
JInt(n) == [t |-> "int", v |-> n]
JStr(s) == [t |-> "str", v |-> s]
JDict(f) == [t |-> "dict", v |-> f]
JExc(m) == [t |-> "exc", v |-> m]
EmptyDict == JDict([k \in {} |-> JNull])

IsNull(x) == x.t = "null"
IsStr(x) == x.t = "str"
IsInt(x) == x.t = "int"
IsDict(x) == x.t = "dict"

\* dict.get(key, default)
Get(d, k, default) == IF k \in DOMAIN d.v THEN d.v[k] ELSE default
Has(d, k) == k \in DOMAIN d.v

\* Python truthiness of a value ("if x:", "x or y")
Truthy(x) ==
    CASE x.t = "null" -> FALSE
      [] x.t = "int" -> x.v # 0
      [] x.t = "str" -> x.v # ""
      [] x.t = "dict" -> DOMAIN x.v # {}
      [] OTHER -> TRUE
PyOr(x, y) == IF Truthy(x) THEN x ELSE y

\* the strings of the model for which str.strip().isnumeric() is True
NumericStrings == {"0", "7", "10", "13"}
\* isinstance(status, int) or str(status).strip().isnumeric()
IsNumericStatus(x) == IsInt(x) \/ (IsStr(x) /\ x.v \in NumericStrings)

(***************************************************************************)
(* The error table (ErrorCode enum of WebDriverError rows), in order.      *)
(***************************************************************************)
Row(n, c, w, h, e, cj, cw) ==
    [name |-> n, json_code |-> c, w3c_status |-> w, http_status_code |-> h,
     exception |-> e, is_canonical_json_code |-> cj, is_canonical_w3c |-> cw]

ErrorCode == <<
  Row("success", 7, "success", 200, "None", TRUE, TRUE),
  Row("NoSuchSession", 7, "invalid session id", 404, "NoSuchSessionException", TRUE, TRUE),
  Row("NoSuchElement", 7, "no such element", 404, "NoSuchElementException", TRUE, TRUE),
  Row("NoSuchFrame", 8, "no such frame", 404, "NoSuchFrameException", TRUE, TRUE),
  Row("UnknownCommand", 9, "unknown command", 404, "UnsupportedCommandException", TRUE, TRUE),
  Row("StaleElement", 10, "stale element reference", 404, "StaleElementReferenceException", TRUE, TRUE),
  Row("ElementNotVisible", 11, "element not visible", 400, "ElementNotVisibleException", TRUE, TRUE),
  Row("InvalidElementState", 12, "invalid element state", 400, "InvalidElementStateException", TRUE, TRUE),
  Row("UnknownError", 13, "unknown error", 500, "WebDriverException", TRUE, TRUE),
  Row("ElementNotSelectable", 15, "element not selectable", 400, "ElementNotSelectableException", TRUE, TRUE),
  Row("JavascriptError", 17, "javascript error", 500, "JavascriptException", TRUE, TRUE),
  Row("XpathLookup", 19, "invalid selector", 400, "InvalidSelectorException", FALSE, FALSE),
  Row("Timeout", 21, "timeout", 500, "TimeoutException", TRUE, TRUE),
  Row("NoSuchWindow", 23, "no such window", 404, "NoSuchWindowException", TRUE, TRUE),
  Row("InvalidCookieDomain", 24, "invalid cookie domain", 400, "InvalidCookieDomainException", TRUE, TRUE),
  Row("UnableToSetCookie", 25, "unable to set cookie", 500, "UnableToSetCookieException", TRUE, TRUE),
  Row("UnhandledAlertOpen", 26, "unexpected alert open", 500, "UnhandledAlertException", TRUE, TRUE),
  Row("NoAlertPresent", 27, "no such alert", 404, "NoAlertPresentException", TRUE, TRUE),
  Row("ScriptTimeout", 28, "script timeout", 500, "ScriptTimeoutException", TRUE, TRUE),
  Row("InvalidElementCoordinates", 29, "invalid element coordinates", 400, "InvalidCoordinatesException", TRUE, TRUE),
  Row("ImeNotAvailable", 30, "ime not available", 500, "ImeNotAvailableException", TRUE, FALSE),
  Row("ImeActivationFailed", 31, "ime engine activation failed", 500, "ImeActivationFailedException", TRUE, FALSE),
  Row("InvalidSelector", 32, "invalid selector", 400, "InvalidSelectorException", TRUE, TRUE),
  Row("SessioNotCreated", 33, "session not created", 500, "SessionNotCreatedException", TRUE, TRUE),
  Row("MoveTargetOutOfBounds", 34, "move target out of bounds", 500, "MoveTargetOutOfBoundsException", TRUE, TRUE),
  Row("InvalidXpathSelector", 51, "invalid selector", 400, "InvalidSelectorException", FALSE, FALSE),
  Row("InvalidXpathReturnType", 52, "invalid selector", 400, "InvalidSelectorException", FALSE, TRUE),
  Row("ElementNotInteractable", 60, "element not interactable", 400, "ElementNotInteractableException", TRUE, TRUE),
  Row("InvalidArgument", 61, "invalid argument", 400, "InvalidArgumentException", TRUE, TRUE),
  Row("NoSuchCookie", 62, "no such cookie", 404, "NoSuchCookieException", TRUE, TRUE),
  Row("Screenshot", 63, "unable to capture screen", 500, "ScreenshotException", TRUE, TRUE),
  Row("ElementClickIntercepted", 64, "element click intercepted", 400, "ElementClickInterceptedException", TRUE, TRUE),
  Row("MethodNotAllowed", 405, "unsupported operation", 500, "UnsupportedCommandException", FALSE, TRUE),
  Row("UnknownMethod", 405, "unknown method", 405, "UnsupportedCommandException", FALSE, TRUE),
  Row("InsecureCertificate", -1, "insecure certificate", 500, "InsecureCertificateException", TRUE, TRUE),
  Row("InvalidSessionId", -1, "invalid session id", 500, "InvalidSessionIdException", TRUE, TRUE),
  Row("InvalidCoordinates", -1, "invalid coordinates", 500, "InvalidCoordinatesException", TRUE, TRUE)
>>

SUCCESS == ErrorCode[1]
UNKNOWN_ERROR == ErrorCode[9]
DEFAULT_EXCEPTION == "WebDriverException"

\* WebDriverError.is_match(value)
is_match(row, value) ==
    /\ \/ (IsInt(value) /\ value.v = row.json_code)
       \/ (IsStr(value) /\ value.v = row.w3c_status)
    /\ row.is_canonical_w3c

\* a faulty lookup that forgets the default: None when no row matches
FirstHitNoDefault(hits) ==
    IF hits = {} THEN "None"
    ELSE ErrorCode[CHOOSE i \in hits : \A j \in hits : i <= j].exception

\* the exception class of the first row among hits, in declaration order
FirstHit(hits) ==
    IF hits = {} THEN DEFAULT_EXCEPTION
    ELSE ErrorCode[CHOOSE i \in hits : \A j \in hits : i <= j].exception

\* ErrorCode.get_exception_for_error(error): the first matching row
get_exception_for_error(error) ==
    FirstHit({i \in DOMAIN ErrorCode : is_match(ErrorCode[i], error)})

\* ErrorCode.is_success(code)
is_success(code) == is_match(SUCCESS, code)

(***************************************************************************)
(* ErrorHandler (remote/errorhandler.py).                                  *)
(***************************************************************************)
\* json.loads on the strings of the model; a string outside the table does
\* not parse and _convert_str_to_json gives it back unchanged
_convert_str_to_json(value_json) ==
    IF IsStr(value_json) /\ value_json.v \in NumericStrings
    THEN JInt(CASE value_json.v = "0" -> 0 [] value_json.v = "7" -> 7
                [] value_json.v = "10" -> 10 [] OTHER -> 13)
    ELSE value_json

\* _get_status_value_message, the legacy branch (no 'error' key): message
\* is value['message'] or value['value'], and a dict message becomes value
GsvmLegacy(v1, m) ==
    IF IsDict(m)
    THEN [err |-> "none", status |-> Get(v1, "status", JNull),
          value |-> m, message |-> Get(m, "message", JNull)]
    ELSE [err |-> "none", status |-> Get(v1, "status", JNull),
          value |-> v1, message |-> m]

\* a faulty branch that reads the message from value['message'] alone
GsvmStatusMessageOnly(v1) ==
    IF ~IsDict(v1) THEN [err |-> "AttributeError"]
    ELSE IF IsNull(Get(v1, "error", JNull))
    THEN GsvmLegacy(v1, Get(v1, "message", JNull))
    ELSE [err |-> "none", status |-> Get(v1, "error", JNull), value |-> v1,
          message |-> Get(v1, "message", JNull)]

\* ... from "status = value.get('error')" on; a value without .get raises
\* AttributeError, which "except ValueError" does not catch
GsvmStatus(v1) ==
    IF ~IsDict(v1) THEN [err |-> "AttributeError"]
    ELSE IF IsNull(Get(v1, "error", JNull))
    THEN GsvmLegacy(v1, PyOr(Get(v1, "message", JNull), Get(v1, "value", JNull)))
    ELSE [err |-> "none", status |-> Get(v1, "error", JNull), value |-> v1,
          message |-> Get(v1, "message", JNull)]

\* ... the unwrapping of a dict whose only key is 'value'
GsvmValue(v0) ==
    IF ~IsDict(v0) THEN [err |-> "AttributeError"]
    ELSE GsvmStatus(IF DOMAIN v0.v = {"value"} THEN v0.v["value"] ELSE v0)

\* the try block of _get_status_value_message, entered when value_json is
\* truthy; err names the exception that leaves the block
GsvmTry(response, value_json) == GsvmValue(_convert_str_to_json(value_json))

\* ... the two fix-ups after the try block
GsvmMessage(r, value) ==
    [err |-> "none", status |-> r.status, value |-> value,
     message |-> IF ~Truthy(r.message) /\ IsDict(value) /\ Has(value, "message")
                 THEN value.v["message"] ELSE r.message]
GsvmFinish(response, r) ==
    IF r.err # "none" THEN r
    ELSE GsvmMessage(r, IF Truthy(r.value) THEN r.value ELSE Get(response, "value", JNull))

_get_status_value_message(response) ==
    GsvmFinish(response,
               IF Truthy(Get(response, "value", JNull))
               THEN GsvmTry(response, Get(response, "value", JNull))
               ELSE [err |-> "none", status |-> Get(response, "status", JNull),
                     value |-> JNull, message |-> JNull])

Returned == [kind |-> "return", exc |-> "", msg |-> JNull]
Raised(exc, msg) == [kind |-> "raise", exc |-> exc, msg |-> msg]
\* an exception that is not of the WebDriver taxonomy (AttributeError, ...)
Internal(exc) == [kind |-> "internal", exc |-> exc, msg |-> JNull]

\* calling the exception class: the row of SUCCESS has None for a class
Raise(exception_class, msg) ==
    IF exception_class = "None" THEN Internal("TypeError")
    ELSE Raised(exception_class, msg)

\* handle, from "if isinstance(value, str)" to the final raise
HandleRaise(exception_class, value, message) ==
    IF IsStr(value) THEN Raise(exception_class, value)
    ELSE IF Truthy(value) /\ ~IsDict(value) THEN Internal("AttributeError")
    ELSE Raise(exception_class, message)

\* handle, from the lookup of the exception class on
HandleError(g) ==
    IF g.err # "none" THEN Internal(g.err)
    ELSE HandleRaise(get_exception_for_error(g.status), g.value, g.message)

\* ErrorHandler.handle(response): returns normally or raises
HandleStatus(response, status) ==
    IF IsNull(status) \/ is_success(status) THEN Returned
    ELSE HandleError(IF IsNumericStatus(status)
                     THEN _get_status_value_message(response)
                     ELSE [err |-> "none", status |-> status, value |-> JNull,
                           message |-> Get(response, "message", JStr(""))])
handle(response) == HandleStatus(response, Get(response, "status", JNull))

(***************************************************************************)
(* Command registry (remote/command_codec.py, chromium/command_codec.py).  *)
(* A url template is a sequence of parts, a literal or a {placeholder}.    *)
(***************************************************************************)
Lit(s) == [ph |-> FALSE, s |-> s]
Ph(s) == [ph |-> TRUE, s |-> s]
CommandSpec(m, path) == [http_method |-> m, url_path |-> path]
for_session == <<Lit("/session/"), Ph("sessionId")>>
for_element == for_session \o <<Lit("/element/"), Ph("id")>>

\* CommandCodec._init_command_specs: the entries the model's verbs use
BaseCommands ==
    [c \in {"newSession", "quit", "get", "findElement", "clickElement"} |->
        CASE c = "newSession" -> CommandSpec("POST", <<Lit("/session")>>)
          [] c = "quit" -> CommandSpec("DELETE", for_session)
          [] c = "get" -> CommandSpec("POST", for_session \o <<Lit("/url")>>)
          [] c = "findElement" -> CommandSpec("POST", for_session \o <<Lit("/element")>>)
          [] OTHER -> CommandSpec("POST", for_element \o <<Lit("/click")>>)]

\* ChromiumCommandCodec.add_chromium_commands layered over the base table
ChromiumCommands ==
    [c \in DOMAIN BaseCommands \cup {"launchApp"} |->
        IF c = "launchApp"
        THEN CommandSpec("POST", for_session \o <<Lit("/chromium/launch_app")>>)
        ELSE BaseCommands[c]]

\* the Command enum members the model's callers pass to execute()
Commands == {"newSession", "quit", "get", "findElement", "clickElement", "launchApp"}

\* str(x) as str.format renders a parameter value into the url
PyStr(x) ==
    CASE x.t = "null" -> "None"
      [] x.t = "str" -> x.v
      [] OTHER -> "<obj>"

\* CommandInfo.get_all_params: params, then sessionId overwritten
get_all_params(session_id, params) ==
    [k \in DOMAIN params.v \cup {"sessionId"} |->
        IF k = "sessionId" THEN session_id ELSE params.v[k]]

\* CommandCodec._build_url: ok with the concrete url, or the ValueError that
\* names the first placeholder that params does not provide
BuildUrl(url_path, all, missing) ==
    IF missing # {}
    THEN [ok |-> FALSE, exc |-> "ValueError",
          msg |-> "required placeholder missing: "
                    \o url_path[CHOOSE i \in missing : \A j \in missing : i <= j].s]
    ELSE [ok |-> TRUE,
          url_path |-> [i \in 1..Len(url_path) |->
                           IF url_path[i].ph THEN PyStr(all[url_path[i].s])
                           ELSE url_path[i].s]]
_build_url(url_path, all) ==
    BuildUrl(url_path, all,
             {i \in 1..Len(url_path) : url_path[i].ph /\ url_path[i].s \notin DOMAIN all})

\* CommandCodec.encode on a codec with tables commands / aliases
EncodeBuilt(command_spec, b) ==
    IF b.ok THEN [ok |-> TRUE, http_method |-> command_spec.http_method,
                  url_path |-> b.url_path]
    ELSE b
EncodeCommand(commands, c, session_id, params) ==
    IF c \notin DOMAIN commands
    THEN [ok |-> FALSE, exc |-> "ValueError", msg |-> "not recognized as a valid command"]
    ELSE EncodeBuilt(commands[c],
                     _build_url(commands[c].url_path, get_all_params(session_id, params)))
encode(commands, aliases, command_enum, session_id, params) ==
    EncodeCommand(commands,
                  IF command_enum \in DOMAIN aliases THEN aliases[command_enum]
                  ELSE command_enum,
                  session_id, params)

(***************************************************************************)
(* Request / response wrappers (remote/http_executor.py).                  *)
(***************************************************************************)
ELEMENT1 == "ELEMENT"
ELEMENT2 == "element-6066-11e4-a52e-4f735466cecf"
JList(q) == [t |-> "list", v |-> q]
\* a WebElement object: its parent driver, its id and its dialect flag
JElem(parent, id, w3c) == [t |-> "elem", parent |-> parent, id |-> id, w3c |-> w3c]
IsList(x) == x.t = "list"
IsElem(x) == x.t = "elem"

\* a faulty unwrapper that does not look into lists
RECURSIVE UnwrapNoLists(_)
UnwrapNoLists(value) ==
    CASE IsDict(value) -> JDict([k \in DOMAIN value.v |-> UnwrapNoLists(value.v[k])])
      [] IsElem(value) -> JDict([k \in {ELEMENT1, ELEMENT2} |-> value.id])
      [] OTHER -> value

\* WebDriverRequestWrapper.unwrap_web_element
RECURSIVE unwrap_web_element(_)
unwrap_web_element(value) ==
    CASE IsDict(value) -> JDict([k \in DOMAIN value.v |-> unwrap_web_element(value.v[k])])
      [] IsElem(value) -> JDict([k \in {ELEMENT1, ELEMENT2} |-> value.id])
      [] IsList(value) -> JList([i \in 1..Len(value.v) |-> unwrap_web_element(value.v[i])])
      [] OTHER -> value

\* a KeyError on value[ELEMENT2] is the value [t |-> "keyerror"], which the
\* callers propagate
KeyError == [t |-> "keyerror"]

\* a faulty wrapper that does not look into maps
RECURSIVE WrapNoMaps(_, _, _)
WrapNoMaps(webdriver, value, is_w3c) ==
    CASE IsDict(value) ->
            IF Has(value, ELEMENT1) \/ Has(value, ELEMENT2)
            THEN IF ~IsNull(Get(value, ELEMENT1, JNull))
                 THEN JElem(webdriver, value.v[ELEMENT1], is_w3c)
                 ELSE IF Has(value, ELEMENT2)
                      THEN JElem(webdriver, value.v[ELEMENT2], is_w3c)
                      ELSE KeyError
            ELSE value
      [] IsList(value) ->
            JList([i \in 1..Len(value.v) |-> WrapNoMaps(webdriver, value.v[i], is_w3c)])
      [] OTHER -> value

\* WebDriverResponseWrapper.wrap_web_element
RECURSIVE wrap_web_element(_, _, _)
wrap_web_element(webdriver, value, is_w3c) ==
    CASE IsDict(value) ->
            IF Has(value, ELEMENT1) \/ Has(value, ELEMENT2)
            THEN IF ~IsNull(Get(value, ELEMENT1, JNull))
                 THEN JElem(webdriver, value.v[ELEMENT1], is_w3c)
                 ELSE IF Has(value, ELEMENT2)
                      THEN JElem(webdriver, value.v[ELEMENT2], is_w3c)
                      ELSE KeyError
            ELSE LET conv == [k \in DOMAIN value.v |->
                                 wrap_web_element(webdriver, value.v[k], is_w3c)]
                 IN IF \E k \in DOMAIN conv : conv[k] = KeyError THEN KeyError
                    ELSE JDict(conv)
      [] IsList(value) ->
            LET conv == [i \in 1..Len(value.v) |->
                            wrap_web_element(webdriver, value.v[i], is_w3c)]
            IN IF \E i \in 1..Len(conv) : conv[i] = KeyError THEN KeyError
               ELSE JList(conv)
      [] OTHER -> value

\* An HTTP response as httpx hands it over: status code, whether the body
\* bytes can be decoded with the declared charset, whether the text is
\* JSON, and the decoded data (the JSON value, or the text as a string)
HttpResponse(code, charset_ok, is_json, data) ==
    [status_code |-> code, is_error |-> code >= 400, charset_ok |-> charset_ok,
     is_json |-> is_json, data |-> data]

\* WebDriverResponseWrapper.create_response: the envelope, or the exception
\* it raises (caught by execute)
create_response(r) ==
    IF ~r.charset_ok
    THEN [ok |-> FALSE, exc |-> "UnboundLocalError", msg |-> "response_data referenced before assignment"]
    ELSE IF r.is_error
    THEN [ok |-> TRUE, response |-> JDict([k \in {"status", "value"} |->
                 IF k = "status" THEN JInt(r.status_code) ELSE r.data])]
    ELSE IF r.is_json
    THEN IF IsDict(r.data)
         THEN [ok |-> TRUE, response |-> JDict([k \in DOMAIN r.data.v \cup {"value"} |->
                      IF k \in DOMAIN r.data.v THEN r.data.v[k] ELSE JNull])]
         ELSE [ok |-> FALSE, exc |-> "TypeError", msg |-> "JSON body is not an object"]
    ELSE [ok |-> TRUE, response |-> JDict([k \in {"status", "value"} |->
                 IF k = "status" THEN JInt(SUCCESS.json_code) ELSE r.data])]

\* the inner dict of WebDriverWrapper._ERROR_OBJ_TEMPLATE after
\* create_response_for_error(message, stacktrace) has filled it in
ErrorValue(message, stacktrace) ==
    [k \in {"error", "message", "stacktrace"} |->
        CASE k = "error" -> JStr(UNKNOWN_ERROR.w3c_status)
          [] k = "message" -> JStr(message)
          [] OTHER -> JExc(stacktrace)]

\* the envelope create_response_for_error returns: a fresh top-level dict
\* whose 'value' is the dict object of the class-level template (value)
ErrorEnvelope(value) ==
    JDict([k \in {"status", "value"} |->
        IF k = "status" THEN JInt(UNKNOWN_ERROR.json_code) ELSE JDict(value)])

(***************************************************************************)
(* State.                                                                  *)
(***************************************************************************)
\* d1 is a ChromiumDriver (it owns a driver Service), d2 and d3 are
\* RemoteWebDrivers
Drivers == {"d1", "d2", "d3"}
HasService(d) == d = "d1"
\* the client programs explored: one ChromiumDriver session with its Service
\* and the command of its own registry, one
\* RemoteWebDriver session, two RemoteWebDriver sessions run concurrently
\* by one event loop with the verbs of test.py's script, one
\* RemoteWebDriver that starts sessions against the answers a server can
\* give to NEW_SESSION, direct calls of the error table and the error
\* handler, or one RemoteWebDriver whose caller passes nested parameters to
\* execute() against a server that echoes the request body, or one
\* RemoteWebDriver whose caller registers aliases in its command registry,
\* or test.py's program: ChromiumDriver.create(), then verbs, or the caller
\* of switch_to.window() on a W3C session with three windows, or one
\* RemoteWebDriver whose caller gives it a server_url and assigns another
Scripts ==
    {"chromium", "remote", "concurrent", "session", "table", "echo", "alias", "create",
     "window", "rebase"}
\* the two process-wide httpx clients: _KeepAliveClient / _NoKeepAliveClient
Pools == {"keepalive", "nokeepalive"}

VARIABLES
    script,      \* the client program that runs (fixed by Init)
    instance,    \* Pools -> "None" | "open" | "closed": the _instance singletons
    tmplValue,   \* the 'value' dict object of _ERROR_OBJ_TEMPLATE (class level)
    drv,         \* per driver: the RemoteWebDriver fields
    exe,         \* per driver: its HttpExecutor, HttpClient and CommandCodec fields
    call,        \* per driver: the HttpExecutor.execute() call in progress
    op,          \* per driver: the public method the caller is running
    ret,         \* per driver: how that method ends, while it returns
    handles,     \* per driver: the WebElement objects its caller holds
    svc,         \* the Service of d1 (common/service.py)
    probe,       \* the last direct call of the error table or handler
    creating,    \* per driver: the RemoteWebDriver.create() call that makes it
    win,         \* the SwitchTo.window() call in progress, and the browser's windows
    net          \* per driver: server_url, the base urls and the Authorization header

vars ==
    <<script, instance, tmplValue, drv, exe, call, op, ret, handles, svc, probe, creating, win,
      net>>

DriversOf(s) ==
    CASE s \in {"chromium", "create"} -> {"d1"}
      [] s \in {"remote", "session", "echo", "alias", "rebase"} -> {"d2"}
      [] s \in {"table", "window"} -> {}
      [] OTHER -> {"d2", "d3"}
VerbsOf(s) ==
    CASE s \in {"concurrent", "create", "rebase"} -> {"get"}
      [] s = "chromium" -> {"launchApp"}
      [] s \in {"session", "table", "echo", "window"} -> {}
      [] s = "alias" -> {"get", "findElement", "launchApp"}
      [] OTHER -> {"get", "findElement", "launchApp", "clickElement"}

PoolOf(d) == IF drv[d].keep_alive THEN "keepalive" ELSE "nokeepalive"
Codec(d) == IF HasService(d) THEN ChromiumCommands ELSE BaseCommands
NoAliases == [c \in {} |-> ""]

NoResult == [kind |-> "none", exc |-> "", msg |-> JNull, value |-> JNull]
IdleCall ==
    [pc |-> "idle", command |-> "", calls |-> 0, cause |-> "none",
     synthetic |-> FALSE, own |-> JNull, result |-> NoResult, body |-> JNull,
     params |-> JNull, payload |-> JNull, url |-> <<>>, http |-> 0,
     auth |-> "None", target |-> [userinfo |-> "", host |-> "None"]]
IdleOp == [name |-> "idle", pc |-> ""]
NoRet == [name |-> "none", kind |-> "none", exc |-> "", msg |-> JNull,
          command |-> "", calls |-> 0, cause |-> "none", own |-> JNull,
          delete |-> "none", close |-> "none", stop |-> "none", second |-> FALSE, teardown |-> {},
          code |-> JNull, shutdown |-> "none", polls |-> 0, started |-> FALSE,
          stoppedBefore |-> FALSE, body |-> JNull, params |-> JNull, payload |-> JNull,
          url |-> <<>>, value |-> JNull, http |-> 0,
          auth |-> "None", target |-> [userinfo |-> "", host |-> "None"]]

\* the bodies the modelled server can answer with, for any command; in
\* Responses the error statuses come with a W3C error object, a legacy
\* object (codes 10 and 7), a JSON string, a text that is not JSON and an
\* empty body, and a redirect comes with an empty body
OkSessionTop ==
    JDict([k \in {"sessionId", "value"} |->
        IF k = "sessionId" THEN JStr("s1")
        ELSE JDict([c \in {"browserName"} |-> JStr("chrome")])])
OkSessionLegacy ==
    JDict([k \in {"sessionId", "status", "value"} |->
        CASE k = "sessionId" -> JStr("s1")
          [] k = "status" -> JStr("success")
          [] OTHER -> JDict([c \in {"browserName"} |-> JStr("chrome")])])
OkLegacyZero ==
    JDict([k \in {"status", "value"} |->
        IF k = "status" THEN JInt(0) ELSE JStr("title")])
OkElement ==
    JDict([k \in {"value"} |-> JDict([e \in {ELEMENT2} |-> JStr("e1")])])
OkNoValue == JDict([k \in {} |-> JNull])
ErrW3C ==
    JDict([k \in {"value"} |->
        JDict([e \in {"error", "message"} |->
            IF e = "error" THEN JStr("no such window") ELSE JStr("gone")])])
ErrLegacy ==
    JDict([k \in {"status", "value"} |->
        IF k = "status" THEN JInt(10) ELSE JStr("stale element")])

Responses ==
    { HttpResponse(200, TRUE, TRUE, OkSessionTop),
      HttpResponse(200, TRUE, TRUE, OkSessionLegacy),
      HttpResponse(200, TRUE, TRUE, OkLegacyZero),
      HttpResponse(200, TRUE, TRUE, OkElement),
      HttpResponse(200, TRUE, TRUE, OkNoValue),
      HttpResponse(200, TRUE, FALSE, JStr("<html>")),
      HttpResponse(200, FALSE, FALSE, JNull),
      HttpResponse(500, TRUE, TRUE, ErrW3C),
      HttpResponse(404, TRUE, TRUE, ErrLegacy),
      HttpResponse(404, TRUE, TRUE,
                   JDict([k \in {"status", "value"} |->
                       IF k = "status" THEN JInt(7)
                       ELSE JDict([m \in {"message"} |-> JStr("no element")])])),
      HttpResponse(404, TRUE, TRUE, JStr("not found")),
      HttpResponse(404, TRUE, FALSE, JStr("<html>")),
      HttpResponse(502, TRUE, FALSE, JStr("")),
      HttpResponse(302, TRUE, FALSE, JStr("")) }
\* answers to NEW_SESSION: the session id nested under value (W3C), the
\* legacy envelope with status 0, a status next to a nested session id, an
\* empty id, no id, and a value that is not an object
OkSessionNested ==
    JDict([k \in {"value"} |->
        JDict([c \in {"sessionId", "capabilities"} |->
            IF c = "sessionId" THEN JStr("s1")
            ELSE JDict([b \in {"browserName"} |-> JStr("chrome")])])])
OkSessionLegacyZero ==
    JDict([k \in {"sessionId", "status", "value"} |->
        CASE k = "sessionId" -> JStr("s1")
          [] k = "status" -> JInt(0)
          [] OTHER -> JDict([c \in {"browserName"} |-> JStr("chrome")])])
SessionStatusNested ==
    JDict([k \in {"status", "value"} |->
        IF k = "status" THEN JStr("success")
        ELSE JDict([c \in {"sessionId"} |-> JStr("s1")])])
SessionEmptyId ==
    JDict([k \in {"sessionId", "value"} |->
        IF k = "sessionId" THEN JStr("")
        ELSE JDict([c \in {"browserName"} |-> JStr("chrome")])])
SessionNoId ==
    JDict([k \in {"value"} |-> JDict([c \in {"browserName"} |-> JStr("chrome")])])
SessionTextValue == JDict([k \in {"value"} |-> JStr("ok")])

SessionResponses ==
    { HttpResponse(200, TRUE, TRUE, OkSessionTop),
      HttpResponse(200, TRUE, TRUE, OkSessionNested),
      HttpResponse(200, TRUE, TRUE, OkSessionLegacy),
      HttpResponse(200, TRUE, TRUE, OkSessionLegacyZero),
      HttpResponse(200, TRUE, TRUE, SessionStatusNested),
      HttpResponse(200, TRUE, TRUE, SessionEmptyId),
      HttpResponse(200, TRUE, TRUE, SessionNoId),
      HttpResponse(200, TRUE, TRUE, SessionTextValue),
      HttpResponse(200, TRUE, TRUE, OkNoValue),
      HttpResponse(500, TRUE, TRUE, ErrW3C) }

\* the concurrent program and the ChromiumDriver program are explored with
\* a success, an error and an undecodable answer
ResponsesOf(s) ==
    CASE s \in {"concurrent", "chromium", "alias", "create", "rebase"} ->
            { HttpResponse(200, TRUE, TRUE, OkSessionTop),
              HttpResponse(200, FALSE, FALSE, JNull),
              HttpResponse(500, TRUE, TRUE, ErrW3C) }
      [] s = "session" -> SessionResponses
      [] s = "echo" -> { HttpResponse(200, TRUE, TRUE, OkSessionTop),
                         HttpResponse(200, TRUE, TRUE, OkSessionLegacy) }
      [] OTHER -> Responses

\* the parameters the caller of the echo program passes to execute(): under
\* 'args' a WebElement, or maps and lists that hold one, two levels deep;
\* the WebElement of another driver; a map that has an element key of its
\* own next to a WebElement; and the same with a 'sessionId' of the caller
EchoLeaves == {JElem("d2", JStr("e1"), TRUE), JElem("d3", JStr("e2"), FALSE), JStr("q"), JNull}
EchoNested(values) ==
    {JList(<<x>>) : x \in values}
        \cup {JList(<<JElem("d2", JStr("e1"), TRUE), x>>) : x \in values}
        \cup {JDict([k \in {"el"} |-> x]) : x \in values}
EchoArgs ==
    EchoLeaves \cup EchoNested(EchoLeaves) \cup EchoNested(EchoNested(EchoLeaves))
        \cup {JDict([k \in {ELEMENT1, "child"} |->
                  IF k = "child" THEN JElem("d2", JStr("e1"), TRUE) ELSE JStr("x")])}
EchoParams ==
    {JDict([k \in {"script", "args"} |-> IF k = "script" THEN JStr("js") ELSE x]) :
        x \in EchoArgs}
    \cup {JDict([k \in {"script", "args", "sessionId"} |->
              CASE k = "script" -> JStr("js") [] k = "args" -> x
                [] OTHER -> JStr("caller")]) : x \in EchoArgs}

\* the bodies of the echo server: the request body under 'value', and
\* element references with one key, with both, with a null, nested in a
\* list and in a map
Ref(key, id) == JDict([k \in {key} |-> id])
ElementAnswers ==
    {JDict([k \in {"value"} |-> x]) :
        x \in {Ref(ELEMENT2, JStr("xyz")), Ref(ELEMENT1, JStr("abc")), Ref(ELEMENT1, JNull),
               JDict([k \in {ELEMENT1, ELEMENT2} |->
                         IF k = ELEMENT1 THEN JNull ELSE JStr("xyz")]),
               JList(<<Ref(ELEMENT2, JStr("xyz")),
                       JDict([k \in {"found"} |-> Ref(ELEMENT1, JStr("abc"))])>>)}}
AnswersTo(d) ==
    IF script = "echo" /\ call[d].command # "newSession"
    THEN {HttpResponse(200, TRUE, TRUE, b) :
             b \in {JDict([k \in {"value"} |-> call[d].payload])} \cup ElementAnswers}
    ELSE ResponsesOf(script)

(***************************************************************************)
(* HttpExecutor.execute (remote/http_executor.py:85-120), cut at its       *)
(* suspension points: the HTTP request, and the response's aclose().       *)
(***************************************************************************)
\* the end of execute(): wrap_web_element has run; its KeyError leaves
ExecWrapped(w) ==
    IF w = KeyError
    THEN [kind |-> "internal", exc |-> "KeyError", msg |-> JNull, value |-> JNull]
    ELSE [kind |-> "return", exc |-> "", msg |-> JNull, value |-> w]
ExecHandled(d, response, h) ==
    IF h.kind # "return"
    THEN [kind |-> h.kind, exc |-> h.exc, msg |-> h.msg, value |-> JNull]
    ELSE ExecWrapped(wrap_web_element(d, response, exe[d].w3c))
\* error_handler.handle(response), then wrap_web_element: how execute() ends
ExecResult(d, response) == ExecHandled(d, response, handle(response))

\* the except branch when no response object is held: the synthetic error
\* is built in the shared template and handled without suspending
FailWith(d, command, message, cause, calls, tv) ==
    [tmpl |-> tv,
     call |-> [IdleCall EXCEPT !.pc = "done", !.command = command, !.calls = calls,
                               !.cause = cause, !.synthetic = TRUE, !.own = JStr(message),
                               !.result = ExecResult(d, ErrorEnvelope(tv))]]
\* a faulty except branch that lets the exception it caught escape
FailNowEscapes(d, command, message, exc, cause, calls) ==
    [tmpl |-> tmplValue,
     call |-> [IdleCall EXCEPT !.pc = "done", !.command = command, !.calls = calls,
                               !.cause = cause, !.own = JStr(message),
                               !.result = [NoResult EXCEPT !.kind = "internal", !.exc = exc]]]
FailNow(d, command, message, exc, cause, calls) ==
    FailWith(d, command, message, cause, calls, ErrorValue(message, exc))

\* a url as urlparse reads it: the userinfo before '@' ("" if none) and the
\* host; host "None" stands for the Python value None
Url(userinfo, host) == [userinfo |-> userinfo, host |-> host]
\* the server_url the caller gives to the constructor, and sets later
UrlsOf(s) ==
    IF s = "rebase" THEN {Url("", "None"), Url("u:p", "grid"), Url("", "grid")}
    ELSE {Url("", "None")}
\* _get_basic_auth_for_url: "Basic " and the base64 text of user:password
\* when the url joined to the base url has a username, else None
_get_basic_auth_for_url(base_url) ==
    IF base_url.userinfo # "" THEN "Basic " \o base_url.userinfo ELSE "None"
\* _update_header_for_auth, run when encode succeeded: the Authorization
\* entry of the executor's headers afterwards
_update_header_for_auth(n, encoded) ==
    IF encoded /\ _get_basic_auth_for_url(n.base_url) # "None"
    THEN _get_basic_auth_for_url(n.base_url) ELSE n.authorization
\* the setter of RemoteWebDriver.server_url, with the setters of
\* HttpExecutor.base_url and HttpClient.base_url it calls
SetServerUrl(n, url) ==
    IF url.host = "None" THEN n
    ELSE [n EXCEPT !.server_url = url, !.base_url = url, !.client_base_url = url]

\* HttpClient.request with the client object held by this HttpClient
\* (common/http_client.py:101-119): the ways the call can start.  None has
\* no get/post/delete attribute.  What an httpx client does with a request
\* after its aclose() is not fixed by this code: it may refuse to send, or
\* send on a new connection.
ClientRequest(d, command) ==
    IF exe[d].client = "None"
    THEN {FailNow(d, command, "'NoneType' object has no attribute", "AttributeError",
                  "closed_executor", 0)}
    ELSE {[tmpl |-> tmplValue,
           call |-> [IdleCall EXCEPT !.pc = "inflight", !.command = command, !.calls = 1]]}
         \cup IF instance[PoolOf(d)] = "closed"
              THEN {FailNow(d, command, "Cannot send a request, as the client has been closed.",
                            "RuntimeError", "pool_closed", 0)}
              ELSE {}

\* a faulty execute that leaves a sessionId of the caller in params
StripNothing(d, params) == params

\* "if self.w3c and 'sessionId' in params: del params['sessionId']"
StripSessionId(d, params) ==
    IF exe[d].w3c /\ Has(params, "sessionId")
    THEN JDict([k \in DOMAIN params.v \ {"sessionId"} |-> params.v[k]])
    ELSE params

\* a faulty execute that ignores the failure of encode and sends anyway
ExecEncodedSendsAnyway(d, command, enc) == ClientRequest(d, command)

\* execute() up to its first suspension: copy params, drop sessionId under
\* W3C, unwrap elements, encode, hand the request to the client; the set of
\* the ways it can get there
ExecEncoded(d, command, enc) ==
    IF ~enc.ok THEN {FailNow(d, command, enc.msg, enc.exc, "encode", 0)}
    ELSE ClientRequest(d, command)
\* ... the call with the body and the url it hands to the client
ExecSent(d, command, params, payload, enc) ==
    {[s EXCEPT !.call.params = params, !.call.payload = payload,
               !.call.url = IF enc.ok THEN enc.url_path ELSE <<>>,
               !.call.auth = _update_header_for_auth(net[d], enc.ok),
               !.call.target = net[d].client_base_url] :
        s \in ExecEncoded(d, command, enc)}
\* ... and the Authorization header the executor keeps once it has run
HeaderAfter(d, command, params) ==
    _update_header_for_auth(net[d],
        encode(Codec(d), exe[d].aliases, command, drv[d].session_id,
               unwrap_web_element(StripSessionId(d, params))).ok)
ExecStart(d, command, params) ==
    ExecSent(d, command, params, unwrap_web_element(StripSessionId(d, params)),
             encode(Codec(d), exe[d].aliases, command, drv[d].session_id,
                    unwrap_web_element(StripSessionId(d, params))))

(***************************************************************************)
(* RemoteWebDriver / ChromiumDriver / WebElement public methods.  A caller *)
(* runs one method at a time on a driver (op[d]); two drivers interleave.  *)
(* The code that follows execute() in a method runs in the step in which   *)
(* execute() ends: there is no suspension point between them.              *)
(***************************************************************************)
Idle(d) == drv[d].built /\ op[d].name = "idle"
\* in the create program the methods of the driver are called by create(),
\* one after the other, and by the caller once create() has returned it
MayCall(d, stage) == script = "create" => creating[d].stage = stage

\* how a public method ends, from the finished execute() call c it rests on
Ended(name, c, r) ==
    [NoRet EXCEPT !.name = name,
                  !.kind = IF r.kind = "return" THEN "ok" ELSE r.kind,
                  !.exc = r.exc, !.msg = r.msg, !.command = c.command,
                  !.calls = c.calls, !.cause = c.cause, !.own = c.own, !.body = c.body,
                  !.params = c.params, !.payload = c.payload, !.url = c.url,
                  !.http = c.http, !.auth = c.auth, !.target = c.target]
Returning(name) == [name |-> name, pc |-> "return"]

\* RemoteWebDriver.__init__ as the source runs it: line 276 builds
\* SwitchTo(self), whose __init__ reads driver.w3c (switch_to.py line 28),
\* and the property returns self._w3c, which is assigned only at line 282;
\* no class defines _w3c or __getattr__, so the read raises AttributeError
\* and no driver object is handed to the caller
ConstructRaises(d) ==
    /\ d \in DriversOf(script)
    /\ ~drv[d].built
    /\ op[d].name = "idle"
    /\ ret' = [ret EXCEPT ![d] = [NoRet EXCEPT !.name = "construct", !.kind = "internal",
                                               !.exc = "AttributeError"]]
    /\ op' = [op EXCEPT ![d] = Returning("construct")]
    /\ UNCHANGED <<instance, tmplValue, drv, exe, call, handles, svc>>
    /\ UNCHANGED <<script, probe, creating, win, net>>

\* RemoteWebDriver.__init__ with HttpExecutor.__init__ and
\* HttpClient.__init__: the client is the singleton of the keep_alive policy.
\* This is the constructor with _w3c readable at line 276 (the value of
\* line 282 assigned before the helpers are built), the only order in which
\* a driver exists for the methods below to be called on; switch_w3c is
\* SwitchTo._w3c, copied from the driver's flag once and for all
Construct(d, keep_alive, server_url) ==
    /\ d \in DriversOf(script)
    /\ ~drv[d].built
    /\ server_url \in UrlsOf(script)
    /\ net' = [net EXCEPT ![d] =
                  [server_url |-> IF server_url.host = "None" THEN Url("", "127.0.0.1:4444")
                                  ELSE server_url,
                   base_url |-> server_url, client_base_url |-> server_url,
                   authorization |-> "None"]]
    /\ creating' = [creating EXCEPT ![d].stage =
                       IF script = "create" THEN "start_service" ELSE @]
    /\ drv' = [drv EXCEPT ![d] = [built |-> TRUE, keep_alive |-> keep_alive,
                                  session_id |-> JNull, w3c |-> TRUE, quitDone |-> FALSE,
                                  switch_w3c |-> TRUE]]
    /\ exe' = [exe EXCEPT ![d] = [w3c |-> FALSE, client |-> "ref", aliases |-> NoAliases]]
    /\ LET p == IF keep_alive THEN "keepalive" ELSE "nokeepalive"
       IN instance' = IF instance[p] = "None" THEN [instance EXCEPT ![p] = "open"]
                      ELSE instance
    /\ UNCHANGED <<tmplValue, call, op, ret, handles, svc>>
    /\ UNCHANGED <<script, probe, win>>

\* start_session: "if 'sessionId' not in response: response =
\* response.get('value') or response"
SessionPayload(top) ==
    IF Has(top, "sessionId") THEN top ELSE PyOr(Get(top, "value", JNull), top)

\* a faulty start_session without the "if not self.session_id" check
StartSessionUnchecked(d, c, inner) ==
    IF ~IsDict(inner)
    THEN /\ ret' = [ret EXCEPT ![d] = Ended("start_session", c, Internal("AttributeError"))]
         /\ UNCHANGED <<drv, exe>>
    ELSE /\ drv' = [drv EXCEPT ![d].session_id = Get(inner, "sessionId", JNull),
                               ![d].w3c = IsNull(Get(inner, "status", JNull))]
         /\ exe' = [exe EXCEPT ![d].w3c = IsNull(Get(inner, "status", JNull))]
         /\ ret' = [ret EXCEPT ![d] = Ended("start_session", c, c.result)]

\* start_session after execute(NEW_SESSION) returned: session id, dialect
StartSessionParsed(d, c, inner) ==
    IF ~IsDict(inner)
    THEN /\ ret' = [ret EXCEPT ![d] = Ended("start_session", c, Internal("AttributeError"))]
         /\ UNCHANGED <<drv, exe>>
    ELSE IF ~Truthy(Get(inner, "sessionId", JNull))
    THEN /\ drv' = [drv EXCEPT ![d].session_id = Get(inner, "sessionId", JNull)]
         /\ ret' = [ret EXCEPT ![d] = Ended("start_session", c,
                        Raised("WebDriverException", JStr("no sessionId")))]
         /\ UNCHANGED exe
    ELSE /\ drv' = [drv EXCEPT ![d].session_id = Get(inner, "sessionId", JNull),
                               ![d].w3c = IsNull(Get(inner, "status", JNull))]
         /\ exe' = [exe EXCEPT ![d].w3c = IsNull(Get(inner, "status", JNull))]
         /\ ret' = [ret EXCEPT ![d] = Ended("start_session", c, c.result)]

\* start_session once execute(NEW_SESSION) ended, by return or by raise
StartSessionEnd(d, c) ==
    /\ IF c.result.kind # "return"
       THEN /\ ret' = [ret EXCEPT ![d] = Ended("start_session", c, c.result)]
            /\ UNCHANGED <<drv, exe>>
       ELSE StartSessionParsed(d, c, SessionPayload(c.result.value))
    /\ op' = [op EXCEPT ![d] = Returning("start_session")]
    /\ UNCHANGED <<instance, handles>>

\* a faulty verb that decides the dialect again from each response: an
\* error response clears the executor's flag
VerbEndSniffs(d, name, c) ==
    /\ ret' = [ret EXCEPT ![d] = Ended(name, c, c.result)]
    /\ exe' = [exe EXCEPT ![d].w3c = (c.result.kind = "return")]
    /\ op' = [op EXCEPT ![d] = Returning(name)]
    /\ UNCHANGED <<instance, drv, handles>>

\* a verb returns response['value'] to its caller, who keeps the handle
\* (the caller of a direct execute() keeps none)
VerbEnd(d, name, c) ==
    /\ ret' = [ret EXCEPT ![d] = [Ended(name, c, c.result) EXCEPT !.value = c.result.value]]
    /\ handles' = IF name # "execute" /\ c.result.kind = "return" /\ IsDict(c.result.value)
                     /\ IsElem(Get(c.result.value, "value", JNull))
                  THEN [handles EXCEPT ![d] = @ \cup {c.result.value.v["value"]}]
                  ELSE handles
    /\ op' = [op EXCEPT ![d] = Returning(name)]
    /\ UNCHANGED <<instance, drv, exe>>

\* a faulty close without the "if self._client" guard: aclose() on None
HttpClientCloseUnguarded(d) ==
    [client |-> "None", pool |-> "closed", raised |-> exe[d].client = "None"]

\* HttpExecutor.close -> HttpClient.close: aclose() the client object, then
\* forget it; a client forgotten already is skipped by "if self._client".
\* client and pool are the reference and the shared client's state after it.
HttpClientClose(d) ==
    IF exe[d].client = "None"
    THEN [client |-> "None", pool |-> instance[PoolOf(d)], raised |-> FALSE]
    ELSE [client |-> "None", pool |-> "closed", raised |-> FALSE]

\* what RemoteWebDriver.quit does with the outcome of the DELETE: its try
\* has a finally and no except, so an exception of execute() leaves quit()
RemoteQuitOutcome(r) == r

\* what ChromiumDriver.quit does with the outcome of super().quit():
\* "except Exception: pass"
ChromiumQuitOutcome(r) == [r EXCEPT !.kind = "ok", !.exc = "", !.msg = JNull]

\* how RemoteWebDriver.quit ends once the executor is closed: with the
\* outcome r of the DELETE, or with the exception of close()
QuitRet(d, c, r, cl) ==
    [Ended("quit", c, IF cl.raised THEN Internal("AttributeError") ELSE r) EXCEPT
        !.delete = CASE c.cause = "skipped" -> "skipped"
                     [] c.result.kind = "return" -> "ok"
                     [] OTHER -> "failed",
        !.close = IF cl.raised THEN "raised" ELSE "ok",
        !.second = drv[d].quitDone,
        !.teardown = {"stop_client", "close"}]

\* the finally of RemoteWebDriver.quit (remote/webdriver.py:481-486):
\* stop_client(), executor close; RemoteWebDriver.quit ends there, and
\* ChromiumDriver.quit (chromium/webdriver.py:149-159) goes on to
\* service.stop()
QuitClosed(d, c, cl) ==
    /\ exe' = [exe EXCEPT ![d].client = cl.client]
    /\ instance' = [instance EXCEPT ![PoolOf(d)] = cl.pool]
    /\ IF HasService(d)
       THEN /\ ret' = [ret EXCEPT ![d] =
                          ChromiumQuitOutcome(QuitRet(d, c, RemoteQuitOutcome(c.result), cl))]
            /\ op' = [op EXCEPT ![d] = [name |-> "quit", pc |-> "service_stop"]]
            /\ UNCHANGED drv
       ELSE /\ ret' = [ret EXCEPT ![d] = QuitRet(d, c, RemoteQuitOutcome(c.result), cl)]
            /\ op' = [op EXCEPT ![d] = Returning("quit")]
            /\ drv' = [drv EXCEPT ![d].quitDone = TRUE]
    /\ UNCHANGED handles
\* a faulty quit whose teardown is not in a finally: an exception of the
\* DELETE leaves quit() before stop_client() and close()
QuitWithoutFinally(d, c) ==
    IF c.result.kind = "return"
    THEN QuitClosed(d, c, HttpClientClose(d))
    ELSE /\ ret' = [ret EXCEPT ![d] =
                       [QuitRet(d, c, c.result, HttpClientClose(d)) EXCEPT
                           !.teardown = {}, !.close = "none"]]
         /\ op' = [op EXCEPT ![d] = Returning("quit")]
         /\ drv' = [drv EXCEPT ![d].quitDone = TRUE]
         /\ UNCHANGED <<exe, instance, handles>>
QuitFinally(d, c) == QuitClosed(d, c, HttpClientClose(d))

\* the rest of the public method `name` once its execute() call c ended
OpEnd(d, name, c) ==
    CASE name = "start_session" -> StartSessionEnd(d, c)
      [] name = "quit" -> QuitFinally(d, c)
      [] OTHER -> VerbEnd(d, name, c)

\* a public method that starts with one execute(command, params); s is the
\* execute() call at its first suspension, or ended without suspending
BeginWith(d, name, s) ==
    /\ tmplValue' = s.tmpl
    /\ IF s.call.pc = "done"
       THEN /\ OpEnd(d, name, s.call)
            /\ UNCHANGED call
       ELSE /\ call' = [call EXCEPT ![d] = s.call]
            /\ op' = [op EXCEPT ![d] = [name |-> name, pc |-> "execute"]]
            /\ UNCHANGED <<instance, drv, exe, ret, handles>>
    /\ UNCHANGED svc
Begin(d, name, command, params) ==
    /\ \E s \in ExecStart(d, command, params) : BeginWith(d, name, s)
    /\ net' = [net EXCEPT ![d].authorization = HeaderAfter(d, command, params)]

\* RemoteWebDriver.start_session: send NEW_SESSION (the concurrent program
\* starts each of its sessions once)
StartSession(d) ==
    /\ Idle(d) /\ MayCall(d, "start_session")
    /\ script = "concurrent" => IsNull(drv[d].session_id)
    /\ Begin(d, "start_session", "newSession", EmptyDict)
    /\ UNCHANGED <<script, probe, creating, win>>

\* a driver verb: get(url), find_element, launch_app, or a direct
\* execute(CLICK_ELEMENT) that gives no element id
VerbParams(command) ==
    CASE command = "get" -> JDict([k \in {"url"} |-> JStr("http://page")])
      [] command = "findElement" -> JDict([k \in {"using", "value"} |-> JStr("q")])
      [] command = "launchApp" -> JDict([k \in {"id"} |-> JStr("app")])
      [] OTHER -> EmptyDict
Verb(d, command) ==
    /\ Idle(d) /\ MayCall(d, "returned")
    /\ command \in VerbsOf(script)
    /\ Begin(d, "verb", command, VerbParams(command))
    /\ UNCHANGED <<script, probe, creating, win>>

\* CommandCodec.add_alias(command, alias_for_command) on the registry of
\* the driver's executor, both arguments members of Command; the registry
\* of the model holds at most MaxAliases aliases
MaxAliases == 2
AddAlias(d, command, alias_for_command) ==
    /\ script = "alias"
    /\ Idle(d)
    /\ {command, alias_for_command} \subseteq VerbsOf(script)
    /\ Cardinality(DOMAIN exe[d].aliases \cup {command}) <= MaxAliases
    /\ exe' = [exe EXCEPT ![d].aliases =
                  [c \in DOMAIN @ \cup {command} |->
                      IF c = command THEN alias_for_command ELSE @[c]]]
    /\ UNCHANGED <<instance, tmplValue, drv, call, op, ret, handles, svc>>
    /\ UNCHANGED <<script, probe, creating, win, net>>

\* a direct RemoteWebDriver.execute(command, params) of the caller
Execute(d, params) ==
    /\ Idle(d)
    /\ script = "echo"
    /\ params \in EchoParams
    /\ Begin(d, "execute", "get", params)
    /\ UNCHANGED <<script, probe, creating, win>>

\* the caller assigns driver.server_url = url between two commands
Rebase(d, url) ==
    /\ script = "rebase"
    /\ Idle(d)
    /\ net' = [net EXCEPT ![d] = SetServerUrl(@, url)]
    /\ UNCHANGED <<instance, tmplValue, drv, exe, call, op, ret, handles, svc>>
    /\ UNCHANGED <<script, probe, creating, win>>

\* WebElement._execute: the handle's id goes into params, then the parent
\* driver's execute
ElementVerb(d, h) ==
    /\ Idle(d) /\ MayCall(d, "returned")
    /\ h \in handles[d]
    /\ Begin(h.parent, "element_verb", "clickElement", JDict([k \in {"id"} |-> h.id]))
    /\ UNCHANGED <<script, probe, creating, win>>

\* a faulty quit that returns at once when the driver holds no session id,
\* leaving the executor open
QuitBeginReturnsEarly(d) ==
    /\ Idle(d) /\ MayCall(d, "quit")
    /\ IF Truthy(drv[d].session_id)
       THEN Begin(d, "quit", "quit", EmptyDict)
       ELSE /\ ret' = [ret EXCEPT ![d] = [NoRet EXCEPT !.name = "quit", !.kind = "ok",
                                                       !.delete = "skipped"]]
            /\ op' = [op EXCEPT ![d] = Returning("quit")]
            /\ drv' = [drv EXCEPT ![d].quitDone = TRUE]
            /\ UNCHANGED <<instance, exe, handles, call, tmplValue, svc, net>>
    /\ UNCHANGED <<script, probe, creating, win>>

\* quit(): the DELETE-session command is sent only when the driver holds a
\* session id
QuitBegin(d) ==
    /\ Idle(d) /\ MayCall(d, "quit")
    /\ IF Truthy(drv[d].session_id)
       THEN Begin(d, "quit", "quit", EmptyDict)
       ELSE /\ QuitFinally(d, [IdleCall EXCEPT !.pc = "done", !.cause = "skipped",
                                   !.result = [NoResult EXCEPT !.kind = "return"]])
            /\ UNCHANGED <<call, tmplValue, svc, net>>
    /\ UNCHANGED <<script, probe, creating, win>>

\* the awaited request raised: the except branch, then the rest of the method
Failed(d, f) ==
    /\ tmplValue' = f.tmpl
    /\ call' = [call EXCEPT ![d] = IdleCall]
    /\ OpEnd(d, op[d].name, [f.call EXCEPT !.params = call[d].params,
                                            !.payload = call[d].payload, !.url = call[d].url,
                                            !.auth = call[d].auth,
                                            !.target = call[d].target])

\* the awaited request returned a response and create_response ran.  The
\* response's aclose() is awaited in the finally; the step ends there only
\* when the envelope built meanwhile is the shared template (create_response
\* raised), as a decoded response is an object of this call alone
Answered(d, r, cr) ==
    IF cr.ok
    THEN /\ OpEnd(d, op[d].name,
                  [call[d] EXCEPT !.pc = "done", !.result = ExecResult(d, cr.response),
                                  !.body = cr.response, !.http = r.status_code])
         /\ call' = [call EXCEPT ![d] = IdleCall]
         /\ UNCHANGED tmplValue
    ELSE /\ call' = [call EXCEPT ![d].pc = "closing", ![d].synthetic = TRUE,
                                 ![d].cause = "decode", ![d].own = JStr(cr.msg),
                                 ![d].http = r.status_code]
         /\ tmplValue' = ErrorValue(cr.msg, cr.exc)
         /\ UNCHANGED <<instance, drv, exe, op, ret, handles>>

\* the awaited request ends: with a transport exception, with the error of
\* a connection that the close of the shared client cut, or with a response
HttpComplete(d) ==
    /\ call[d].pc = "inflight"
    /\ \/ Failed(d, FailNow(d, call[d].command, "ConnectError:" \o d, "ConnectError",
                            "transport", call[d].calls))
       \/ /\ instance[PoolOf(d)] = "closed"
          /\ Failed(d, FailNow(d, call[d].command, "connection closed", "ReadError",
                               "pool_closing", call[d].calls))
       \/ \E r \in AnswersTo(d) : Answered(d, r, create_response(r))
    /\ UNCHANGED svc
    /\ UNCHANGED <<script, probe, creating, win, net>>

\* remote_response.aclose() has returned: the envelope is handled with the
\* contents the shared template has by now
ExecClose(d) ==
    /\ call[d].pc = "closing"
    /\ OpEnd(d, op[d].name,
             [call[d] EXCEPT !.pc = "done",
                             !.result = ExecResult(d, ErrorEnvelope(tmplValue))])
    /\ call' = [call EXCEPT ![d] = IdleCall]
    /\ UNCHANGED <<tmplValue, svc>>
    /\ UNCHANGED <<script, probe, creating, win, net>>

\* RemoteWebDriver.create (remote/webdriver.py:213-239), as the caller of
\* the driver's methods: cls(**kwargs), start_service(), start_client(),
\* start_session() in its try block, and quit() in its finally.  failure is
\* the exception that left the try block, result what create() hands to its
\* own caller; sent are the commands that went to the server meanwhile.
NoOutcome == [kind |-> "none", exc |-> "", msg |-> JNull]
NoCreate ==
    [stage |-> "none", failed |-> "none", failure |-> NoOutcome, result |-> NoOutcome,
     sent |-> {}, starts |-> 0, delete |-> "none", close |-> "none"]
SentBy(r) == IF r.calls > 0 /\ r.command # "" THEN {r.command} ELSE {}
\* a method called in the try block has returned or raised r
CreateTried(c, r) ==
    [c EXCEPT !.stage = IF r.kind = "ok" /\ r.name = "start_service"
                        THEN "start_session" ELSE "quit",
              !.failed = IF r.kind = "ok" THEN "none" ELSE r.name,
              !.failure = IF r.kind = "ok" THEN NoOutcome
                          ELSE [kind |-> r.kind, exc |-> r.exc, msg |-> r.msg],
              !.sent = @ \cup SentBy(r),
              !.starts = @ + IF r.name = "start_service" THEN 1 ELSE 0]
\* a faulty finally without "except: pass" around quit()
CreateFinallyPropagates(c, r) ==
    [c EXCEPT !.stage = IF c.failed = "none" /\ r.kind = "ok" THEN "returned" ELSE "raised",
              !.result = IF r.kind # "ok" THEN [kind |-> r.kind, exc |-> r.exc, msg |-> r.msg]
                         ELSE IF c.failed = "none" THEN [NoOutcome EXCEPT !.kind = "ok"]
                         ELSE c.failure,
              !.sent = @ \cup SentBy(r), !.delete = r.delete, !.close = r.close]
\* the quit() of the finally has returned or raised r, which is dropped:
\* create() returns the driver, or raises what left the try block
CreateFinally(c, r) ==
    [c EXCEPT !.stage = IF c.failed = "none" THEN "returned" ELSE "raised",
              !.result = IF c.failed = "none" THEN [NoOutcome EXCEPT !.kind = "ok"]
                         ELSE c.failure,
              !.sent = @ \cup SentBy(r), !.delete = r.delete, !.close = r.close]

\* the method hands its result or its exception to its caller: to create()
\* while it runs
Return(d) ==
    /\ op[d].pc = "return"
    /\ op' = [op EXCEPT ![d] = IdleOp]
    /\ ret' = [ret EXCEPT ![d] = NoRet]
    /\ creating' = [creating EXCEPT ![d] =
                       CASE @.stage \in {"start_service", "start_session"} ->
                               CreateTried(@, ret[d])
                         [] @.stage = "quit" -> CreateFinally(@, ret[d])
                         [] OTHER -> @]
    /\ UNCHANGED <<instance, tmplValue, drv, exe, call, handles, svc>>
    /\ UNCHANGED <<script, probe, win, net>>

(***************************************************************************)
(* The driver Service of d1 (common/service.py).                           *)
(***************************************************************************)
\* range(30) of the start() health-check loop and of the shutdown wait
StartPollAttempts == 30
ShutdownPollAttempts == 30

\* the Service before start(): __init__ sets no process attribute.
\* process: the attribute ("unset", "None", or the Process object whose
\* subprocess is "running" or "exited"); returncode: Process.returncode;
\* finished: the subprocess transport has been closed after the exit, so
\* that terminate() and kill() raise ProcessLookupError; stopped: a stop()
\* has run to its end on this process
NewService ==
    [process |-> "unset", returncode |-> JNull, finished |-> FALSE, stopped |-> FALSE,
     pc |-> "idle", checks |-> 0]
IdleSvc(s) == [s EXCEPT !.pc = "idle", !.checks = 0]

\* how asyncio.create_subprocess_exec can end
SpawnOutcomes == {"ok", "ENOENT", "EACCES", "OSError", "TypeError", "Exception"}
\* the exit codes a subprocess is explored with
ExitCodes == {0, 1}

StartEnded(d, kind, exc, msg, code, checks) ==
    /\ ret' = [ret EXCEPT ![d] = [NoRet EXCEPT !.name = "start_service", !.kind = kind,
                                       !.exc = exc, !.msg = JStr(msg), !.code = code,
                                       !.calls = checks]]
    /\ op' = [op EXCEPT ![d] = Returning("start_service")]

\* the except clauses of start() around the spawn: TypeError and an OSError
\* other than ENOENT and EACCES are raised again, the rest becomes a
\* WebDriverException
SpawnError(outcome) ==
    CASE outcome = "ENOENT" ->
            Raised("WebDriverException", JStr("executable needs to be in PATH"))
      [] outcome = "EACCES" ->
            Raised("WebDriverException", JStr("executable may have wrong permissions"))
      [] outcome = "Exception" ->
            Raised("WebDriverException", JStr("needs to be available in the path"))
      [] OTHER -> [Internal(outcome) EXCEPT !.msg = JStr(outcome)]

\* a faulty start() without the errno branches: every OSError of the spawn
\* is raised again as it is
StartServiceNoErrno(d, outcome) ==
    /\ Idle(d) /\ MayCall(d, "start_service") /\ HasService(d) /\ svc.pc = "idle"
    /\ outcome \in SpawnOutcomes
    /\ IF outcome = "ok"
       THEN /\ svc' = [svc EXCEPT !.process = "running", !.returncode = JNull,
                                  !.finished = FALSE, !.stopped = FALSE,
                                  !.pc = "poll", !.checks = 0]
            /\ op' = [op EXCEPT ![d] = [name |-> "start_service", pc |-> "poll"]]
            /\ UNCHANGED ret
       ELSE /\ StartEnded(d, "internal", "OSError", "OSError", JNull, 0)
            /\ UNCHANGED svc
    /\ UNCHANGED <<instance, tmplValue, drv, exe, call, handles>>
    /\ UNCHANGED <<script, probe, creating, win, net>>

\* ChromiumDriver.start_service -> Service.start up to the poll loop: the
\* spawn, and the exception a failed spawn ends start() with
StartService(d, outcome) ==
    /\ Idle(d) /\ MayCall(d, "start_service") /\ HasService(d) /\ svc.pc = "idle"
    /\ outcome \in SpawnOutcomes
    /\ IF outcome = "ok"
       THEN /\ svc' = [svc EXCEPT !.process = "running", !.returncode = JNull,
                                  !.finished = FALSE, !.stopped = FALSE,
                                  !.pc = "poll", !.checks = 0]
            /\ op' = [op EXCEPT ![d] = [name |-> "start_service", pc |-> "poll"]]
            /\ UNCHANGED ret
       ELSE /\ StartEnded(d, SpawnError(outcome).kind, SpawnError(outcome).exc,
                          SpawnError(outcome).msg.v, JNull, 0)
            /\ UNCHANGED svc
    /\ UNCHANGED <<instance, tmplValue, drv, exe, call, handles>>
    /\ UNCHANGED <<script, probe, creating, win, net>>

\* the subprocess exits by itself: its returncode becomes non-None
ProcessExit(code) ==
    /\ svc.process = "running"
    /\ svc' = [svc EXCEPT !.process = "exited", !.returncode = JInt(code)]
    /\ UNCHANGED <<instance, tmplValue, drv, exe, call, op, ret, handles>>
    /\ UNCHANGED <<script, probe, creating, win, net>>

\* the event loop closes the transport of the exited subprocess
ProcessFinished ==
    /\ svc.process = "exited" /\ ~svc.finished
    /\ svc' = [svc EXCEPT !.finished = TRUE]
    /\ UNCHANGED <<instance, tmplValue, drv, exe, call, op, ret, handles>>
    /\ UNCHANGED <<script, probe, creating, win, net>>

\* a faulty check that tests the truth of the return code: exit code 0
\* passes for "still running"
AssertTruthy(d) ==
    /\ op[d].name = "start_service" /\ svc.pc = "poll"
    /\ IF ~IsNull(svc.returncode) /\ svc.returncode # JInt(0)
       THEN /\ StartEnded(d, "raise", "WebDriverException", "unexpectedly exited",
                          svc.returncode, svc.checks)
            /\ svc' = IdleSvc(svc)
       ELSE /\ svc' = [svc EXCEPT !.pc = "connecting"]
            /\ UNCHANGED <<op, ret>>
    /\ UNCHANGED <<instance, tmplValue, drv, exe, call, handles>>
    /\ UNCHANGED <<script, probe, creating, win, net>>

\* an iteration of the loop of start() begins: a return code that is not
\* None raises; otherwise is_connectable() is awaited
assert_process_still_running(d) ==
    /\ op[d].name = "start_service" /\ svc.pc = "poll"
    /\ IF ~IsNull(svc.returncode)
       THEN /\ StartEnded(d, "raise", "WebDriverException", "unexpectedly exited",
                          svc.returncode, svc.checks)
            /\ svc' = IdleSvc(svc)
       ELSE /\ svc' = [svc EXCEPT !.pc = "connecting"]
            /\ UNCHANGED <<op, ret>>
    /\ UNCHANGED <<instance, tmplValue, drv, exe, call, handles>>
    /\ UNCHANGED <<script, probe, creating, win, net>>

\* a faulty loop that makes one attempt more than the bound
StartPollOffByOne(d, connectable) ==
    /\ op[d].name = "start_service" /\ svc.pc = "connecting"
    /\ IF connectable
       THEN /\ StartEnded(d, "ok", "", "connectable", JNull, svc.checks + 1)
            /\ svc' = IdleSvc(svc)
       ELSE IF svc.checks + 1 = StartPollAttempts + 1
       THEN /\ StartEnded(d, "raise", "WebDriverException", "Cannot connect to the Service",
                          JNull, svc.checks + 1)
            /\ svc' = IdleSvc(svc)
       ELSE /\ svc' = [svc EXCEPT !.checks = @ + 1, !.pc = "poll"]
            /\ UNCHANGED <<op, ret>>
    /\ UNCHANGED <<instance, tmplValue, drv, exe, call, handles>>
    /\ UNCHANGED <<script, probe, creating, win>>
    /\ net' = IF connectable THEN [net EXCEPT ![d] = SetServerUrl(@, Url("", "localhost:port"))]
              ELSE net

\* the rest of the iteration: is_connectable() has answered; break, or
\* sleep(1) and the next iteration; the for-else after the last
StartPoll(d, connectable) ==
    /\ op[d].name = "start_service" /\ svc.pc = "connecting"
    /\ IF connectable
       THEN /\ StartEnded(d, "ok", "", "connectable", JNull, svc.checks + 1)
            /\ svc' = IdleSvc(svc)
       ELSE IF svc.checks + 1 = StartPollAttempts
       THEN /\ StartEnded(d, "raise", "WebDriverException", "Cannot connect to the Service",
                          JNull, svc.checks + 1)
            /\ svc' = IdleSvc(svc)
       ELSE /\ svc' = [svc EXCEPT !.checks = @ + 1, !.pc = "poll"]
            /\ UNCHANGED <<op, ret>>
    /\ UNCHANGED <<instance, tmplValue, drv, exe, call, handles>>
    /\ UNCHANGED <<script, probe, creating, win>>
    /\ net' = IF connectable THEN [net EXCEPT ![d] = SetServerUrl(@, Url("", "localhost:port"))]
              ELSE net

\* ChromiumDriver.quit has ended, normally or with the exception of stop();
\* s is the Service it leaves, marks the calls stop() made on the process
QuitEnded(d, kind, exc, s, marks) ==
    /\ ret' = [ret EXCEPT ![d].kind = kind, ![d].exc = exc,
                          ![d].stop = IF kind = "ok" THEN "ok" ELSE "raised",
                          ![d].teardown = @ \cup {"service.stop"} \cup marks]
    /\ op' = [op EXCEPT ![d] = Returning("quit")]
    /\ drv' = [drv EXCEPT ![d].quitDone = TRUE]
    /\ svc' = IdleSvc(s)

\* Service.stop up to the shutdown request: the process attribute exists
\* only once start() has spawned; None returns at once
ServiceStop(d) ==
    /\ op[d].name = "quit" /\ op[d].pc = "service_stop" /\ svc.pc = "idle"
    /\ CASE svc.process = "unset" -> QuitEnded(d, "internal", "AttributeError", svc, {})
         [] svc.process = "None" -> QuitEnded(d, ret[d].kind, ret[d].exc, svc, {})
         [] OTHER -> /\ svc' = [svc EXCEPT !.pc = "shutdown_sent"]
                     /\ ret' = [ret EXCEPT ![d].teardown = @ \cup {"service.stop"},
                                           ![d].started = TRUE,
                                           ![d].stoppedBefore = svc.stopped]
                     /\ UNCHANGED <<op, drv>>
    /\ UNCHANGED <<instance, tmplValue, exe, call, handles>>
    /\ UNCHANGED <<script, probe, creating, win, net>>

\* a faulty stop() that lets the exception of the shutdown request leave
ShutdownResultPropagates(d, raised) ==
    /\ op[d].name = "quit" /\ svc.pc = "shutdown_sent"
    /\ IF raised
       THEN /\ QuitEnded(d, "internal", "ConnectError", svc, {})
            /\ UNCHANGED <<instance, tmplValue, exe, call, handles>>
       ELSE /\ svc' = [svc EXCEPT !.pc = "shutdown_poll", !.checks = 0]
            /\ UNCHANGED <<instance, tmplValue, drv, exe, call, op, ret, handles>>
    /\ UNCHANGED <<script, probe, creating, win, net>>

\* send_remote_shutdown_command: the GET /shutdown raised (ignored), or it
\* was answered and the disconnection poll starts
ShutdownResult(d, raised) ==
    /\ op[d].name = "quit" /\ svc.pc = "shutdown_sent"
    /\ svc' = [svc EXCEPT !.pc = IF raised THEN "terminate" ELSE "shutdown_poll",
                          !.checks = 0]
    /\ ret' = IF raised THEN [ret EXCEPT ![d].shutdown = "raised"] ELSE ret
    /\ UNCHANGED <<instance, tmplValue, drv, exe, call, op, handles>>
    /\ UNCHANGED <<script, probe, creating, win, net>>

\* one iteration of the disconnection poll; the for-else only warns
ShutdownPoll(d, connectable) ==
    /\ op[d].name = "quit" /\ svc.pc = "shutdown_poll"
    /\ IF ~connectable \/ svc.checks + 1 = ShutdownPollAttempts
       THEN /\ svc' = [svc EXCEPT !.pc = "terminate", !.checks = 0]
            /\ ret' = [ret EXCEPT ![d].shutdown = IF connectable THEN "warned"
                                                  ELSE "disconnected",
                                  ![d].polls = svc.checks + 1]
       ELSE /\ svc' = [svc EXCEPT !.checks = @ + 1]
            /\ UNCHANGED ret
    /\ UNCHANGED <<instance, tmplValue, drv, exe, call, op, handles>>
    /\ UNCHANGED <<script, probe, creating, win, net>>

\* a faulty stop() that signals only a subprocess that is still running:
\* one that has exited already is left without terminate()
TerminateOnlyRunning(d) ==
    /\ op[d].name = "quit" /\ svc.pc = "terminate"
    /\ IF svc.process = "exited"
       THEN QuitEnded(d, ret[d].kind, ret[d].exc, [svc EXCEPT !.stopped = TRUE], {})
       ELSE /\ svc' = [svc EXCEPT !.pc = "waiting"]
            /\ ret' = [ret EXCEPT ![d].teardown = @ \cup {"terminate"}]
            /\ UNCHANGED <<op, drv>>
    /\ UNCHANGED <<instance, tmplValue, exe, call, handles>>
    /\ UNCHANGED <<script, probe, creating, win, net>>

\* the streams are closed and terminate() is called.  On a subprocess whose
\* transport is closed it raises ProcessLookupError, an OSError, which
\* stop() swallows, leaving the process attribute as it is.  On one that has
\* exited with the transport still open, terminate() and kill() do nothing,
\* wait() returns at once and the attribute is set to None.
Terminate(d) ==
    /\ op[d].name = "quit" /\ svc.pc = "terminate"
    /\ CASE svc.process = "exited" /\ svc.finished ->
               QuitEnded(d, ret[d].kind, ret[d].exc, [svc EXCEPT !.stopped = TRUE],
                         {"terminate", "terminate:ProcessLookupError"})
         [] svc.process = "exited" /\ ~svc.finished ->
               QuitEnded(d, ret[d].kind, ret[d].exc,
                         [svc EXCEPT !.stopped = TRUE, !.process = "None"],
                         {"terminate", "wait", "kill"})
         [] OTHER -> /\ svc' = [svc EXCEPT !.pc = "waiting"]
                     /\ ret' = [ret EXCEPT ![d].teardown = @ \cup {"terminate"}]
                     /\ UNCHANGED <<op, drv>>
    /\ UNCHANGED <<instance, tmplValue, exe, call, handles>>
    /\ UNCHANGED <<script, probe, creating, win, net>>

\* a faulty stop() that leaves out the kill() after wait()
WaitReturnsNoKill(d) ==
    /\ op[d].name = "quit" /\ svc.pc = "waiting"
    /\ QuitEnded(d, ret[d].kind, ret[d].exc,
                 [svc EXCEPT !.stopped = TRUE, !.process = "None", !.finished = TRUE,
                             !.returncode = IF IsNull(@) THEN JInt(-15) ELSE @],
                 {"wait"})
    /\ UNCHANGED <<instance, tmplValue, exe, call, handles>>
    /\ UNCHANGED <<script, probe, creating, win, net>>

\* process.wait() returns once the subprocess has exited and its transport
\* is closed; kill() then raises ProcessLookupError, swallowed before
\* "self.process = None"
WaitReturns(d) ==
    /\ op[d].name = "quit" /\ svc.pc = "waiting"
    /\ QuitEnded(d, ret[d].kind, ret[d].exc,
                 [svc EXCEPT !.stopped = TRUE, !.process = "exited", !.finished = TRUE,
                             !.returncode = IF IsNull(@) THEN JInt(-15) ELSE @],
                 {"wait", "kill", "kill:ProcessLookupError"})
    /\ UNCHANGED <<instance, tmplValue, exe, call, handles>>
    /\ UNCHANGED <<script, probe, creating, win, net>>

(***************************************************************************)
(* Direct calls of ErrorCode.is_success, ErrorCode.get_exception_for_error *)
(* and ErrorHandler.handle.                                                *)
(***************************************************************************)
NoProbe ==
    [kind |-> "none", input |-> JNull, success |-> FALSE, exception |-> "",
     handled |-> Returned]

\* the values classified: the code and the slug of every row of the table,
\* codes and slugs of no row, None, and a slug in another letter case and
\* with surrounding blanks
StatusInputs ==
    {JInt(ErrorCode[i].json_code) : i \in DOMAIN ErrorCode}
        \cup {JStr(ErrorCode[i].w3c_status) : i \in DOMAIN ErrorCode}
        \cup {JInt(0), JInt(99), JStr("no such thing"), JStr("7"), JNull}
        \cup {JStr("No Such Window"), JStr(" no such window ")}

\* the envelopes handled: a status (or none) with a value
EnvelopeStatuses ==
    {JNull, JInt(0), JStr("success"), JInt(SUCCESS.json_code), JInt(10), JInt(13),
     JStr("no such window"), JStr("no such thing")}
EnvelopeValues ==
    {JNull, JStr("title"),
     JDict([k \in {"message"} |-> JStr("gone")]),
     JDict([k \in {"error", "message"} |->
         IF k = "error" THEN JStr("no such window") ELSE JStr("gone")])}
Envelope(status, value) ==
    JDict([k \in {"status", "value"} |-> IF k = "status" THEN status ELSE value])
Envelopes ==
    {Envelope(st, v) : st \in EnvelopeStatuses, v \in EnvelopeValues}
        \cup {JDict([k \in {"value"} |-> v]) : v \in EnvelopeValues}

\* is_success(status) and get_exception_for_error(status) are called
Classify(status) ==
    /\ script = "table"
    /\ status \in StatusInputs
    /\ probe' = [kind |-> "status", input |-> status, success |-> is_success(status),
                 exception |-> get_exception_for_error(status), handled |-> Returned]
    /\ UNCHANGED <<script, instance, tmplValue, drv, exe, call, op, ret, handles, svc, creating, win, net>>

\* ErrorHandler().handle(response) is called
HandleEnvelope(response) ==
    /\ script = "table"
    /\ response \in Envelopes
    /\ probe' = [kind |-> "envelope", input |-> response, success |-> FALSE,
                 exception |-> "", handled |-> handle(response)]
    /\ UNCHANGED <<script, instance, tmplValue, drv, exe, call, op, ret, handles, svc, creating, win, net>>

(***************************************************************************)
(* SwitchTo.window on a W3C session (remote/switch_to.py:114-149), cut at  *)
(* the execute() calls it awaits.                                          *)
(***************************************************************************)
\* the windows of the browser: the handles in the order the server lists
\* them, window.name of each, and the current window ("closed" once the
\* caller has closed it)
Browsers ==
    {[handles |-> <<"h1", "h2", "h3">>,
      name |-> [h \in {"h1", "h2", "h3"} |-> IF h = "h1" THEN "main" ELSE "popup"],
      current |-> c] : c \in {"h1", "h3", "closed"}}

\* what the server does with a command of the search and answers: an
\* unknown handle and a closed current window are "no such window" errors,
\* whose message names the handle
WindowAnswer(b, command, arg) ==
    IF \/ command = "switchToWindow" /\ \A i \in DOMAIN b.handles : b.handles[i] # arg
       \/ command \in {"w3cGetCurrentWindowHandle", "w3cExecuteScript"}
            /\ b.current = "closed"
    THEN [b |-> b,
          r |-> HttpResponse(404, TRUE, TRUE, JDict([k \in {"value"} |->
                    JDict([e \in {"error", "message"} |->
                        IF e = "error" THEN JStr("no such window")
                        ELSE JStr(IF command = "switchToWindow" THEN arg ELSE "closed")])]))]
    ELSE [b |-> IF command = "switchToWindow" THEN [b EXCEPT !.current = arg] ELSE b,
          r |-> HttpResponse(200, TRUE, TRUE, JDict([k \in {"value"} |->
                    CASE command = "w3cGetCurrentWindowHandle" -> JStr(b.current)
                      [] command = "w3cGetWindowHandles" ->
                            JList([i \in DOMAIN b.handles |-> JStr(b.handles[i])])
                      [] command = "w3cExecuteScript" -> JStr(b.name[b.current])
                      [] OTHER -> JNull]))]

\* one awaited driver.execute(command, ...) of the search: the call whose
\* number is w.fault fails in the transport, any other is answered by the
\* server, decoded and handled
WinCall(w, command, arg) ==
    IF Len(w.sent) + 1 = w.fault
    THEN [b |-> w.b, out |-> handle(ErrorEnvelope(ErrorValue("ConnectError", "ConnectError"))),
          value |-> JNull]
    ELSE [b |-> WindowAnswer(w.b, command, arg).b,
          out |-> handle(create_response(WindowAnswer(w.b, command, arg).r).response),
          value |-> Get(create_response(WindowAnswer(w.b, command, arg).r).response,
                        "value", JNull)]

\* the code of _w3c_window between the call c that has ended and the next
\* await: an exception other than the NoSuchWindowException of the direct
\* switch leaves the method
WindowNext(w, c) ==
    IF c.out.kind # "return" /\ ~(w.pc = "direct" /\ c.out.exc = "NoSuchWindowException")
    THEN [w EXCEPT !.pc = "done", !.b = c.b, !.out = c.out]
    ELSE CASE w.pc = "direct" ->
                IF c.out.kind = "return"
                THEN [w EXCEPT !.pc = "done", !.b = c.b, !.out = Returned]
                ELSE [w EXCEPT !.pc = "original", !.b = c.b, !.ex = c.out]
           [] w.pc = "original" -> [w EXCEPT !.pc = "handles", !.original = c.value.v]
           [] w.pc = "handles" ->
                [w EXCEPT !.pc = IF Len(c.value.v) = 0 THEN "restore" ELSE "switch",
                          !.list = [i \in DOMAIN c.value.v |-> c.value.v[i].v], !.i = 1]
           [] w.pc = "switch" -> [w EXCEPT !.pc = "name", !.b = c.b]
           [] w.pc = "name" ->
                IF JStr(w.window_name) = c.value
                THEN [w EXCEPT !.pc = "done", !.out = Returned]
                ELSE [w EXCEPT !.pc = IF w.i = Len(w.list) THEN "restore" ELSE "switch",
                               !.i = @ + 1]
           [] OTHER -> [w EXCEPT !.pc = "done", !.b = c.b, !.out = w.ex]

\* the caller calls driver.switch_to.window(window_name): _w3c_window
\* starts, about to try window_name as a handle
MaxFault == 10
Window(window_name, b, fault) ==
    /\ script = "window"
    /\ win.pc \in {"idle", "done"}
    /\ b \in Browsers
    /\ fault \in 0..MaxFault
    /\ win' = [pc |-> "direct", window_name |-> window_name, b |-> b, start |-> b,
               fault |-> fault, sent |-> <<>>, ex |-> Returned, original |-> "",
               list |-> <<>>, i |-> 0, out |-> Returned]
    /\ UNCHANGED <<script, instance, tmplValue, drv, exe, call, op, ret, handles, svc,
                   probe, creating, net>>

\* a faulty loop that switches to the first handle on every round
WinCommandFirstHandle(w) ==
    CASE w.pc = "direct" -> <<"switchToWindow", w.window_name>>
      [] w.pc = "original" -> <<"w3cGetCurrentWindowHandle", "">>
      [] w.pc = "handles" -> <<"w3cGetWindowHandles", "">>
      [] w.pc = "switch" -> <<"switchToWindow", w.list[1]>>
      [] w.pc = "name" -> <<"w3cExecuteScript", "return window.name">>
      [] OTHER -> <<"switchToWindow", w.original>>

\* the execute() call _w3c_window awaits next: command and handle
WinCommand(w) ==
    CASE w.pc = "direct" -> <<"switchToWindow", w.window_name>>
      [] w.pc = "original" -> <<"w3cGetCurrentWindowHandle", "">>
      [] w.pc = "handles" -> <<"w3cGetWindowHandles", "">>
      [] w.pc = "switch" -> <<"switchToWindow", w.list[w.i]>>
      [] w.pc = "name" -> <<"w3cExecuteScript", "return window.name">>
      [] OTHER -> <<"switchToWindow", w.original>>

\* the next awaited execute() of _w3c_window, sent and resumed
WindowStep ==
    /\ win.pc \notin {"idle", "done"}
    /\ win' = WindowNext([win EXCEPT !.sent = Append(@, WinCommand(win))],
                         WinCall(win, WinCommand(win)[1], WinCommand(win)[2]))
    /\ UNCHANGED <<script, instance, tmplValue, drv, exe, call, op, ret, handles, svc,
                   probe, creating, net>>

(***************************************************************************)
(* The specification.                                                      *)
(***************************************************************************)
Init ==
    /\ script \in Scripts
    /\ instance = [p \in Pools |-> "None"]
    /\ tmplValue = [k \in {"error", "message", "stacktrace"} |-> JNull]
    /\ drv = [d \in Drivers |-> [built |-> FALSE, keep_alive |-> TRUE, session_id |-> JNull,
                                 w3c |-> TRUE, quitDone |-> FALSE,
                                 switch_w3c |-> TRUE]]
    /\ exe = [d \in Drivers |-> [w3c |-> FALSE, client |-> "None", aliases |-> NoAliases]]
    /\ call = [d \in Drivers |-> IdleCall]
    /\ op = [d \in Drivers |-> IdleOp]
    /\ ret = [d \in Drivers |-> NoRet]
    /\ handles = [d \in Drivers |-> {}]
    /\ svc = NewService
    /\ probe = NoProbe
    /\ creating = [d \in Drivers |-> NoCreate]
    /\ net = [d \in Drivers |-> [server_url |-> Url("", "None"), base_url |-> Url("", "None"),
                                 client_base_url |-> Url("", "None"),
                                 authorization |-> "None"]]
    /\ win = [pc |-> "idle", window_name |-> "", b |-> CHOOSE b \in Browsers : b.current = "h1",
              start |-> CHOOSE b \in Browsers : b.current = "h1", fault |-> 0, sent |-> <<>>,
              ex |-> Returned, original |-> "", list |-> <<>>, i |-> 0, out |-> Returned]

Next ==
    \/ \E d \in Drivers, ka \in BOOLEAN, u \in UrlsOf(script) : Construct(d, ka, u)
    \/ \E d \in Drivers : ConstructRaises(d)
    \/ \E d \in Drivers, u \in UrlsOf(script) : Rebase(d, u)
    \/ \E d \in Drivers : StartSession(d)
    \/ \E d \in Drivers, c \in Commands : Verb(d, c)
    \/ \E d \in Drivers : \E h \in handles[d] : ElementVerb(d, h)
    \/ \E d \in Drivers, params \in EchoParams : Execute(d, params)
    \/ \E d \in Drivers, c \in Commands, a \in Commands : AddAlias(d, c, a)
    \/ \E d \in Drivers : HttpComplete(d)
    \/ \E d \in Drivers : ExecClose(d)
    \/ \E d \in Drivers : QuitBegin(d)
    \/ \E d \in Drivers : Return(d)
    \/ \E d \in Drivers, o \in SpawnOutcomes : StartService(d, o)
    \/ \E d \in Drivers : assert_process_still_running(d)
    \/ \E d \in Drivers, b \in BOOLEAN : StartPoll(d, b)
    \/ \E code \in ExitCodes : ProcessExit(code)
    \/ ProcessFinished
    \/ \E d \in Drivers : ServiceStop(d)
    \/ \E d \in Drivers, b \in BOOLEAN : ShutdownResult(d, b)
    \/ \E d \in Drivers, b \in BOOLEAN : ShutdownPoll(d, b)
    \/ \E d \in Drivers : Terminate(d)
    \/ \E d \in Drivers : WaitReturns(d)
    \/ \E status \in StatusInputs : Classify(status)
    \/ \E response \in Envelopes : HandleEnvelope(response)
    \/ \E window_name \in {"h2", "main", "popup", "none"}, b \in Browsers, fault \in 0..MaxFault :
           Window(window_name, b, fault)
    \/ WindowStep

Spec == Init /\ [][Next]_vars

\* the event loop resumes the coroutine of start() after each sleep(1)
LiveSpec ==
    /\ Spec
    /\ WF_vars(\E d \in Drivers : assert_process_still_running(d))
    /\ WF_vars(\E d \in Drivers, b \in BOOLEAN : StartPoll(d, b))

(***************************************************************************)
(* Properties.  ret[d] describes how a public method ends, in the state    *)
(* in which it returns to (or raises into) its caller.                     *)
(***************************************************************************)
QuitReturned(d) == op[d].pc = "return" /\ ret[d].name = "quit"
\* a method that rests on one execute() call has ended and execute() ran
ExecuteEnded(d) ==
    /\ op[d].pc = "return"
    /\ \/ ret[d].name \in {"start_session", "verb", "element_verb", "execute"}
       \/ ret[d].name = "quit" /\ ret[d].delete # "skipped"
\* a method has ended with the outcome of its execute() call, unfiltered
ExecuteOutcome(d) ==
    /\ ExecuteEnded(d)
    /\ ret[d].name = "quit" => ~HasService(d)
\* the causes that are exceptions of the transport
TransportCauses == {"transport", "pool_closing", "pool_closed", "closed_executor"}

\* C1: when quit() is called a second time on a driver, no DELETE-session
\* command is attempted and quit() raises nothing (an exception of
\* service.stop() set aside).
C1_QuitIdempotent ==
    \A d \in Drivers :
        QuitReturned(d) /\ ret[d].second =>
            /\ ret[d].delete = "skipped"
            /\ ret[d].kind = "ok" \/ ret[d].stop = "raised"

\* C2: whenever the DELETE-session command of quit() fails, by an error
\* response or by a transport failure, quit() returns without raising (an
\* exception of service.stop() set aside).
C2_QuitSwallowsDeleteErrors ==
    \A d \in Drivers :
        QuitReturned(d) /\ ret[d].delete = "failed" =>
            ret[d].kind = "ok" \/ ret[d].stop = "raised"

\* C3: every quit(), whether its DELETE succeeded, failed or was skipped,
\* has run stop_client() and the executor's close(), and service.stop() on a
\* driver with a service, and leaves the executor closed.
C3_TeardownAlwaysRuns ==
    \A d \in Drivers :
        QuitReturned(d) =>
            /\ {"stop_client", "close"} \subseteq ret[d].teardown
            /\ HasService(d) => "service.stop" \in ret[d].teardown
            /\ exe[d].client = "None"
C3_Witness ==
    \E d \in Drivers :
        QuitReturned(d) /\ HasService(d) /\ ret[d].delete = "failed"
                        /\ ret[d].cause = "transport"

\* C4: the dialect flags of a driver and of its executor change only in the
\* step in which start_session ends successfully; no response to a later
\* command changes them.
C4_DialectSticky ==
    [][\A d \in Drivers :
          (drv[d].w3c' # drv[d].w3c \/ exe[d].w3c' # exe[d].w3c) =>
              /\ op[d].name \in {"idle", "start_session"}
              /\ op[d]' = Returning("start_session")
              /\ ret[d]'.kind = "ok"]_vars
C4_Witness ==
    \E d \in Drivers :
        /\ op[d].pc = "return" /\ ret[d].name \in {"verb", "element_verb"}
        /\ ret[d].exc = "StaleElementReferenceException"
        /\ Truthy(drv[d].session_id) /\ drv[d].w3c /\ exe[d].w3c

\* the parameters the callers of the model give to the command that ended
ParamsOfEnded(d) ==
    CASE ret[d].name = "element_verb" -> JDict([k \in {"id"} |-> JStr("e1")])
      [] ret[d].name = "verb" -> VerbParams(ret[d].command)
      [] OTHER -> EmptyDict
EncodeFails(d) ==
    ~encode(Codec(d), exe[d].aliases, ret[d].command, JNull, ParamsOfEnded(d)).ok

C6_TransportErrorsFunnelled ==
    \A d \in Drivers :
        ExecuteOutcome(d) /\ ret[d].cause \in TransportCauses =>
            /\ ret[d].kind = "raise"
            /\ ret[d].exc = UNKNOWN_ERROR.exception
            /\ ret[d].msg = ret[d].own
C6_Witness ==
    \E d \in Drivers :
        /\ ExecuteOutcome(d) /\ ret[d].cause = "transport"
        /\ ret[d].kind = "raise" /\ ret[d].msg = JStr("ConnectError:" \o d)

\* C7: a close() of an executor that has been closed before changes
\* neither the executor nor the shared clients, and raises nothing.
C7_CloseIdempotent ==
    [][\A d \in Drivers :
          (ret[d].close = "none" /\ ret[d]'.close # "none" /\ exe[d].client = "None") =>
              /\ ret[d]'.close = "ok"
              /\ exe[d]' = exe[d]
              /\ instance' = instance]_vars
C7_Witness ==
    \E d \in Drivers :
        QuitReturned(d) /\ ret[d].second /\ ret[d].close = "ok" /\ ret[d].kind = "ok"

\* C8: no command of a session fails because the shared client it holds
\* was closed (by the quit() of another session).
C8_SharedPoolSafe ==
    \A d \in Drivers :
        op[d].pc = "return" => ret[d].cause \notin {"pool_closed", "pool_closing"}

\* C9: a verb on an element handle whose driver has been quit raises, and
\* makes no HTTP call.
C9_NoHandleOutlivesQuit ==
    \A d \in Drivers :
        (op[d].pc = "return" /\ ret[d].name = "element_verb" /\ drv[d].quitDone) =>
            ret[d].kind = "raise" /\ ret[d].calls = 0
C9_Witness ==
    \E d \in Drivers :
        /\ op[d].pc = "return" /\ ret[d].name = "element_verb" /\ drv[d].quitDone
        /\ ret[d].kind = "raise" /\ ret[d].exc = "WebDriverException"

\* C10: Service.start() ends; it makes at most StartPollAttempts
\* connectivity checks, returns with the first check that succeeds, and
\* raises "Cannot connect" exactly when all StartPollAttempts checks failed.
C10_StartTerminates ==
    /\ [](\A d \in Drivers :
            /\ op[d].name = "start_service" /\ op[d].pc = "poll" =>
                  svc.checks < StartPollAttempts
            /\ op[d].pc = "return" /\ ret[d].name = "start_service" =>
                  /\ ret[d].calls <= StartPollAttempts
                  /\ ret[d].kind = "ok" => ret[d].calls >= 1
                  /\ ret[d].msg = JStr("Cannot connect to the Service") <=>
                        (ret[d].kind = "raise" /\ ret[d].calls = StartPollAttempts))
    /\ \A d \in Drivers :
          (op[d].name = "start_service" /\ op[d].pc = "poll") ~> (op[d].pc = "return")
C10_Witness ==
    \E d \in Drivers :
        /\ op[d].pc = "return" /\ ret[d].name = "start_service"
        /\ ret[d].msg = JStr("Cannot connect to the Service")
        /\ ret[d].calls = StartPollAttempts

\* C11: every iteration of the loop of start() checks the exit code before
\* it tries to connect: an iteration that begins with a return code that is
\* not None ends start() with the "unexpectedly exited" WebDriverException
\* carrying that code and makes no connect attempt; a connect attempt, and
\* so a normal return or a "Cannot connect", only follows an iteration that
\* began with the return code None.
C11_ExitCheckedFirst ==
    [][\A d \in Drivers :
        /\ (op[d].name = "start_service" /\ svc.pc = "poll" /\ svc'.pc # "poll"
               /\ ~IsNull(svc.returncode)) =>
              /\ op'[d].pc = "return" /\ ret'[d].name = "start_service"
              /\ ret'[d].kind = "raise" /\ ret'[d].exc = "WebDriverException"
              /\ ret'[d].msg = JStr("unexpectedly exited")
              /\ ret'[d].code = svc.returncode
              /\ ret'[d].calls = svc.checks
              /\ svc'.pc = "idle"
        /\ (svc'.pc = "connecting" /\ svc.pc # "connecting") =>
              (svc.pc = "poll" /\ IsNull(svc.returncode))
        /\ (ret'[d].name = "start_service" /\ ret[d].name # "start_service"
               /\ ret'[d].msg \in {JStr("connectable"), JStr("Cannot connect to the Service")}) =>
              svc.pc = "connecting"]_vars
C11_Witness ==
    \E d \in Drivers :
        /\ op[d].pc = "return" /\ ret[d].name = "start_service"
        /\ ret[d].msg = JStr("unexpectedly exited")
        /\ ret[d].code = JInt(0) /\ ret[d].calls = 2

\* C12: start() with an executable path that does not exist (the spawn
\* fails with errno ENOENT) raises the WebDriverException "executable needs
\* to be in PATH" at once: no process, no exit check, no connect attempt.
C12_MissingExecutable ==
    [][\A d \in Drivers :
        StartService(d, "ENOENT") =>
            /\ op'[d].pc = "return" /\ ret'[d].name = "start_service"
            /\ ret'[d].kind = "raise" /\ ret'[d].exc = "WebDriverException"
            /\ ret'[d].msg = JStr("executable needs to be in PATH")
            /\ ret'[d].calls = 0
            /\ svc' = svc /\ svc.pc = "idle"]_vars
C12_Witness ==
    \E d \in Drivers :
        /\ op[d].pc = "return" /\ ret[d].name = "start_service"
        /\ ret[d].msg = JStr("executable needs to be in PATH")
        /\ svc.process = "unset" /\ svc.checks = 0

\* stop() found a started process, and quit() returns
StopReturned(d) == QuitReturned(d) /\ ret[d].started

\* C13 as claimed: stop() on a started process always calls terminate(),
\* wait() and kill(), however terminate() and wait() went.
C13_DoubleTapAlways ==
    \A d \in Drivers :
        StopReturned(d) => {"terminate", "wait", "kill"} \subseteq ret[d].teardown

\* C13 as amended: stop() on a started process calls terminate(); when
\* terminate() raises no error, wait() and then kill() follow, whatever the
\* exit status; when terminate() raises an OSError, stop() ends silently
\* with neither.
C13_DoubleTapUnlessTerminateRaises ==
    \A d \in Drivers :
        StopReturned(d) =>
            /\ "terminate" \in ret[d].teardown
            /\ ret[d].stop = "ok"
            /\ IF "terminate:ProcessLookupError" \in ret[d].teardown
               THEN ret[d].teardown \cap {"wait", "kill"} = {}
               ELSE {"wait", "kill"} \subseteq ret[d].teardown
C13_Witness ==
    \E d \in Drivers :
        /\ StopReturned(d)
        /\ {"terminate", "wait", "kill"} \subseteq ret[d].teardown
        /\ svc.returncode = JInt(-15)

\* C14: the remote shutdown never makes stop() fail: an exception of the
\* shutdown request is ignored, the disconnection poll makes at most
\* ShutdownPollAttempts checks, a service still connectable after the last
\* only warns, and stop() goes on to terminate() in each case.
C14_ShutdownNeverFails ==
    /\ svc.pc = "shutdown_poll" => svc.checks < ShutdownPollAttempts
    /\ \A d \in Drivers :
        StopReturned(d) =>
            /\ ret[d].stop = "ok"
            /\ ret[d].shutdown \in {"raised", "disconnected", "warned"}
            /\ ret[d].polls <= ShutdownPollAttempts
            /\ ret[d].shutdown = "raised" => ret[d].polls = 0
            /\ ret[d].shutdown = "disconnected" => ret[d].polls >= 1
            /\ ret[d].shutdown = "warned" => ret[d].polls = ShutdownPollAttempts
            /\ "terminate" \in ret[d].teardown
C14_Witness ==
    \E d \in Drivers :
        /\ StopReturned(d)
        /\ ret[d].shutdown = "warned" /\ ret[d].polls = ShutdownPollAttempts
        /\ "terminate" \in ret[d].teardown

\* C15: once a stop() has run to its end on a started process, a later
\* stop() calls neither terminate() nor kill() on it.
C15_NoDoubleFree ==
    \A d \in Drivers :
        (QuitReturned(d) /\ ret[d].stoppedBefore) =>
            ret[d].teardown \cap {"terminate", "kill"} = {}


\* start_session returns to (or raises into) its caller
StartReturned(d) == op[d].pc = "return" /\ ret[d].name = "start_session"
\* the session id an answer to NEW_SESSION carries: the top-level sessionId,
\* or the one nested under value
SessionIdOf(body) ==
    IF Has(body, "sessionId") THEN Get(body, "sessionId", JNull)
    ELSE IF IsDict(Get(body, "value", JNull))
    THEN Get(Get(body, "value", JNull), "sessionId", JNull)
    ELSE JNull

\* C16: start_session ends normally only with a non-empty session id
\* assigned, the top-level sessionId of the answer or the one nested under
\* value; with an answer that carries none, or an empty one, it raises.
C16_SessionIdAssigned ==
    \A d \in Drivers :
        StartReturned(d) =>
            /\ ret[d].kind \in {"ok", "raise", "internal"}
            /\ ret[d].kind = "ok" =>
                  /\ IsDict(ret[d].body)
                  /\ Truthy(drv[d].session_id)
                  /\ drv[d].session_id = SessionIdOf(ret[d].body)
            /\ (IsDict(ret[d].body) /\ ~Truthy(SessionIdOf(ret[d].body))) =>
                  ret[d].kind # "ok"
C16_Witness ==
    \E d \in Drivers :
        /\ StartReturned(d) /\ ret[d].kind = "ok"
        /\ ret[d].body = OkSessionNested
        /\ drv[d].session_id = JStr("s1")

\* C17: start_session decides W3C exactly when the answer to NEW_SESSION
\* has no top-level status; the answer {"sessionId": "s1", "value":
\* {"browserName": "chrome"}} gives W3C and the session id "s1"; a
\* successful answer with a top-level legacy status gives not-W3C.
C17_DialectFromTopLevelStatus ==
    \A d \in Drivers :
        (StartReturned(d) /\ IsDict(ret[d].body)) =>
            /\ ret[d].kind = "ok" =>
                  /\ drv[d].w3c = IsNull(Get(ret[d].body, "status", JNull))
                  /\ exe[d].w3c = drv[d].w3c
            /\ ret[d].body = OkSessionTop =>
                  /\ ret[d].kind = "ok" /\ drv[d].w3c
                  /\ drv[d].session_id = JStr("s1")
            /\ (Get(ret[d].body, "status", JNull) \in {JInt(0), JStr("success")}
                   /\ Truthy(SessionIdOf(ret[d].body))) =>
                  (ret[d].kind = "ok" /\ ~drv[d].w3c)

\* the value is the code or the slug of a row of the table other than SUCCESS
OtherEntry(value) ==
    \E i \in DOMAIN ErrorCode :
        /\ ErrorCode[i] # SUCCESS
        /\ value \in {JInt(ErrorCode[i].json_code), JStr(ErrorCode[i].w3c_status)}
\* the value is the code or the slug of the SUCCESS row
SuccessEntry(value) == value \in {JInt(SUCCESS.json_code), JStr(SUCCESS.w3c_status)}

\* C18: is_success(status) is true only for the code and the slug of the
\* SUCCESS row, and false for the code and the slug of every other row.
C18_IsSuccessOnlyCanonical ==
    probe.kind = "status" =>
        /\ probe.success => SuccessEntry(probe.input)
        /\ OtherEntry(probe.input) => ~probe.success

\* C19: an envelope whose status is 0, "success" or absent makes
\* ErrorHandler.handle return normally.
C19_SuccessIsZero ==
    (probe.kind = "envelope"
        /\ Get(probe.input, "status", JNull) \in {JNull, JInt(0), JStr("success")}) =>
        probe.handled.kind = "return"

\* C20 as claimed: get_exception_for_error gives an exception class for
\* every value, and the class of unknown errors for a value of no row.
C20_ClassificationTotal ==
    probe.kind = "status" =>
        /\ probe.exception # "None"
        /\ (~OtherEntry(probe.input) /\ ~SuccessEntry(probe.input)) =>
              probe.exception = DEFAULT_EXCEPTION

\* C20 as amended: get_exception_for_error gives an exception class for
\* every value but the code and the slug of the SUCCESS row, for which it
\* gives None, and the class of unknown errors for a value of no row.
C20_ClassificationTotalButSuccess ==
    probe.kind = "status" =>
        /\ probe.exception \in
              {ErrorCode[i].exception : i \in DOMAIN ErrorCode} \cup {DEFAULT_EXCEPTION}
        /\ probe.exception = "None" <=> SuccessEntry(probe.input)
        /\ (~OtherEntry(probe.input) /\ ~SuccessEntry(probe.input)) =>
              probe.exception = DEFAULT_EXCEPTION
C20_Witness ==
    /\ probe.kind = "status" /\ probe.input = JInt(99)
    /\ probe.exception = DEFAULT_EXCEPTION

\* value.strip().lower() on the strings classified
Normalised(value) ==
    IF value \in {JStr("No Such Window"), JStr(" no such window ")}
    THEN JStr("no such window") ELSE value
\* the rows whose code equals value, or whose slug equals value whatever
\* its letter case and surrounding blanks, canonical or not
EntriesOf(value) ==
    {i \in DOMAIN ErrorCode :
        \/ value = JInt(ErrorCode[i].json_code)
        \/ Normalised(value) = JStr(ErrorCode[i].w3c_status)}
FirstEntryKind(entries) ==
    IF entries = {} THEN DEFAULT_EXCEPTION
    ELSE IF ErrorCode[CHOOSE i \in entries : \A j \in entries : i <= j].is_canonical_w3c
         THEN ErrorCode[CHOOSE i \in entries : \A j \in entries : i <= j].exception
         ELSE DEFAULT_EXCEPTION

\* C21: get_exception_for_error(value) is the exception of the first row,
\* in table order, whose code equals value or whose slug equals value up to
\* letter case and surrounding blanks; it is the class of unknown errors
\* when there is no such row or when that row is not canonical.
C21_FirstEntryDecides ==
    probe.kind = "status" => probe.exception = FirstEntryKind(EntriesOf(probe.input))

\* the envelope create_response builds from HTTP 404 with the body
\* {"status":10,"value":"stale element"}
ScenarioB == create_response(HttpResponse(404, TRUE, TRUE, ErrLegacy)).response

\* C22: a command answered with HTTP 404 and the body
\* {"status":10,"value":"stale element"} raises
\* StaleElementReferenceException with the message "stale element".
C22_ScenarioB ==
    \A d \in Drivers :
        (op[d].pc = "return" /\ ret[d].name \in {"start_session", "verb", "element_verb"}
            /\ ret[d].body = ScenarioB) =>
            /\ ret[d].kind = "raise"
            /\ ret[d].exc = "StaleElementReferenceException"
            /\ ret[d].msg = JStr("stale element")
C22_Witness ==
    \E d \in Drivers :
        /\ op[d].pc = "return" /\ ret[d].name = "verb" /\ ret[d].body = ScenarioB
        /\ ret[d].exc = "StaleElementReferenceException"

\* the execute() call that ended was answered with its own body under 'value'
Echoed(d) ==
    /\ op[d].pc = "return" /\ ret[d].name = "execute" /\ ret[d].calls = 1
    /\ ret[d].body = JDict([k \in {"value"} |-> ret[d].payload])
\* wherever sent holds a WebElement, back holds a WebElement of the same id
RECURSIVE HandlesKept(_, _)
HandlesKept(sent, back) ==
    CASE IsElem(sent) -> IsElem(back) /\ back.id = sent.id
      [] IsDict(sent) ->
            /\ IsDict(back) /\ DOMAIN back.v = DOMAIN sent.v
            /\ \A k \in DOMAIN sent.v : HandlesKept(sent.v[k], back.v[k])
      [] IsList(sent) ->
            /\ IsList(back) /\ Len(back.v) = Len(sent.v)
            /\ \A i \in 1..Len(sent.v) : HandlesKept(sent.v[i], back.v[i])
      [] OTHER -> TRUE
\* a map that has one of the two element keys itself, at any depth
RECURSIVE HasKeyedMap(_)
HasKeyedMap(value) ==
    CASE IsDict(value) ->
            \/ Has(value, ELEMENT1) \/ Has(value, ELEMENT2)
            \/ \E k \in DOMAIN value.v : HasKeyedMap(value.v[k])
      [] IsList(value) -> \E i \in 1..Len(value.v) : HasKeyedMap(value.v[i])
      [] OTHER -> FALSE

\* C23 as claimed: when the server echoes the body of execute(), the value
\* returned holds, wherever the parameters held a WebElement inside maps
\* and lists, a WebElement with the same id.
C23_RoundTrip ==
    \A d \in Drivers :
        Echoed(d) =>
            /\ ret[d].kind = "ok"
            /\ HandlesKept(ret[d].params.v["args"], ret[d].value.v["value"].v["args"])

\* C23 amended: the same, for parameters none of whose maps has one of the
\* two element keys itself.
C23_RoundTripOfPlainMaps ==
    \A d \in Drivers :
        (Echoed(d) /\ ~HasKeyedMap(ret[d].params)) =>
            /\ ret[d].kind = "ok"
            /\ HandlesKept(ret[d].params.v["args"], ret[d].value.v["value"].v["args"])
C23_Witness ==
    \E d \in Drivers :
        /\ Echoed(d) /\ ret[d].kind = "ok"
        /\ ret[d].params.v["args"] =
              JList(<<JDict([k \in {"el"} |-> JElem("d3", JStr("e2"), FALSE)])>>)
        /\ ret[d].value.v["value"].v["args"] =
              JList(<<JDict([k \in {"el"} |-> JElem("d2", JStr("e2"), exe[d].w3c)])>>)

\* an execute() call of the caller's own has ended
CallerExecuteEnded(d) ==
    op[d].pc = "return" /\ ret[d].name \in {"execute", "verb", "element_verb"}
RECURSIVE NoHandle(_)
NoHandle(value) ==
    CASE IsElem(value) -> FALSE
      [] IsDict(value) -> \A k \in DOMAIN value.v : NoHandle(value.v[k])
      [] IsList(value) -> \A i \in 1..Len(value.v) : NoHandle(value.v[i])
      [] OTHER -> TRUE
\* sent is given with each WebElement replaced by the two-key object of its
\* id, and nothing else changed
RECURSIVE OnlyHandlesReplaced(_, _)
OnlyHandlesReplaced(given, sent) ==
    CASE IsElem(given) ->
            /\ IsDict(sent) /\ DOMAIN sent.v = {ELEMENT1, ELEMENT2}
            /\ sent.v[ELEMENT1] = given.id /\ sent.v[ELEMENT2] = given.id
      [] IsDict(given) ->
            /\ IsDict(sent) /\ DOMAIN sent.v = DOMAIN given.v
            /\ \A k \in DOMAIN given.v : OnlyHandlesReplaced(given.v[k], sent.v[k])
      [] IsList(given) ->
            /\ IsList(sent) /\ Len(sent.v) = Len(given.v)
            /\ \A i \in 1..Len(given.v) : OnlyHandlesReplaced(given.v[i], sent.v[i])
      [] OTHER -> sent = given
\* params without its top-level sessionId
WithoutSessionId(params) ==
    JDict([k \in DOMAIN params.v \ {"sessionId"} |-> params.v[k]])

\* C24 as claimed: the body execute() builds holds no WebElement; it is
\* params with every WebElement, at any depth, replaced by the two-key
\* object of its id, and every other value unchanged.
C24_BodyIsParamsUnwrapped ==
    \A d \in Drivers :
        CallerExecuteEnded(d) =>
            /\ NoHandle(ret[d].payload)
            /\ OnlyHandlesReplaced(ret[d].params, ret[d].payload)

\* C24 amended: the same, except that the body has no top-level sessionId
\* when the executor is in W3C mode.
C24_BodyIsParamsUnwrappedLessSessionId ==
    \A d \in Drivers :
        CallerExecuteEnded(d) =>
            /\ NoHandle(ret[d].payload)
            /\ OnlyHandlesReplaced(IF exe[d].w3c THEN WithoutSessionId(ret[d].params)
                                   ELSE ret[d].params,
                                   ret[d].payload)
C24_Witness ==
    \E d \in Drivers :
        /\ CallerExecuteEnded(d) /\ ret[d].name = "execute" /\ exe[d].w3c
        /\ ret[d].params.v["args"] = JList(<<JElem("d2", JStr("e1"), TRUE), JStr("q")>>)
        /\ Has(ret[d].params, "sessionId") /\ ~Has(ret[d].payload, "sessionId")
        /\ ret[d].payload.v["args"] =
              JList(<<JDict([k \in {ELEMENT1, ELEMENT2} |-> JStr("e1")]), JStr("q")>>)

\* made is decoded with every map that has an element key replaced by a
\* WebElement of driver d whose id is the value of such a key of the map
RECURSIVE HandlesMade(_, _, _)
HandlesMade(d, decoded, made) ==
    CASE IsDict(decoded) /\ (Has(decoded, ELEMENT1) \/ Has(decoded, ELEMENT2)) ->
            /\ IsElem(made) /\ made.parent = d
            /\ made.id \in {decoded.v[k] : k \in DOMAIN decoded.v \cap {ELEMENT1, ELEMENT2}}
      [] IsDict(decoded) ->
            /\ IsDict(made) /\ DOMAIN made.v = DOMAIN decoded.v
            /\ \A k \in DOMAIN decoded.v : HandlesMade(d, decoded.v[k], made.v[k])
      [] IsList(decoded) ->
            /\ IsList(made) /\ Len(made.v) = Len(decoded.v)
            /\ \A i \in 1..Len(decoded.v) : HandlesMade(d, decoded.v[i], made.v[i])
      [] OTHER -> made = decoded

\* C25: when a command is answered with HTTP 200 and a body without
\* status, execute() returns the body with every map that has the key
\* "ELEMENT" or the key "element-6066-11e4-a52e-4f735466cecf", at any depth
\* of the value, replaced by a WebElement of this driver with that key's
\* value for its id.
C25_EitherKeySuffices ==
    \A d \in Drivers :
        (CallerExecuteEnded(d) /\ ret[d].calls = 1 /\ IsDict(ret[d].body)
            /\ ~Has(ret[d].body, "status")) =>
            /\ ret[d].kind = "ok"
            /\ HandlesMade(d, ret[d].body, ret[d].value)

\* what the registry of d makes of command: its CommandSpec filled in for
\* a session, or the error of encode
Resolve(d, command) ==
    encode(Codec(d), exe[d].aliases, command, JStr("s1"),
           JDict([k \in {"id"} |-> JStr("e1")]))
AliasAgrees(d, command) ==
    command \in DOMAIN exe[d].aliases =>
        Resolve(d, command) = Resolve(d, exe[d].aliases[command])

\* C26: in the state that add_alias(alias, target) leaves, the registry
\* resolves alias to what it resolves target to.
C26_AliasResolvesAsTarget ==
    [][\A d \in Drivers : \A command \in Commands :
          (/\ command \in DOMAIN exe'[d].aliases
           /\ \/ command \notin DOMAIN exe[d].aliases
              \/ exe[d].aliases[command] # exe'[d].aliases[command]) =>
              AliasAgrees(d, command)']_vars

\* the execute() call that ended found the url placeholder {id} unfilled
PlaceholderMissing(d) ==
    /\ ExecuteEnded(d) /\ ret[d].cause = "encode"
    /\ ret[d].own = JStr("required placeholder missing: id")

\* C27: an execute() whose url template has a placeholder that neither the
\* session id nor params fills makes no HTTP call and raises into its
\* caller an error that names the key and is not of the unknown-error kind
\* of runtime and network failures.
C27_MissingPlaceholderIsConfigurationError ==
    \A d \in Drivers :
        PlaceholderMissing(d) =>
            /\ ret[d].calls = 0
            /\ ret[d].kind \in {"raise", "internal"}
            /\ ret[d].exc # UNKNOWN_ERROR.exception

\* C28: for every execute() on a driver that holds a session of the W3C
\* dialect, the body has no top-level sessionId, whatever the caller put in
\* params, and the {sessionId} part of the url is the driver's session id.
C28_SessionIdByUrlOnly ==
    \A d \in Drivers :
        (ExecuteEnded(d) /\ ret[d].name # "start_session"
            /\ Truthy(drv[d].session_id) /\ drv[d].w3c) =>
            /\ ~Has(ret[d].payload, "sessionId")
            /\ ret[d].url # <<>> =>
                  (ret[d].url[1] = "/session/" /\ ret[d].url[2] = PyStr(drv[d].session_id))
C28_Witness ==
    \E d \in Drivers :
        /\ ExecuteEnded(d) /\ ret[d].name = "execute" /\ drv[d].w3c
        /\ drv[d].session_id = JStr("s1")
        /\ Get(ret[d].params, "sessionId", JNull) = JStr("caller")
        /\ ~Has(ret[d].payload, "sessionId")
        /\ ret[d].url = <<"/session/", "s1", "/url">> /\ ret[d].calls = 1

\* C29: a driver that create() has returned has a running service, a
\* session id and an open executor, no DELETE-session has been sent for it,
\* and the verbs its caller issues next each make their HTTP call.
C29_CreatedDriverIsActive ==
    \A d \in Drivers :
        creating[d].stage = "returned" =>
            /\ HasService(d) => svc.process = "running"
            /\ Truthy(drv[d].session_id)
            /\ "quit" \notin creating[d].sent
            /\ exe[d].client # "None"
            /\ (op[d].pc = "return" /\ ret[d].name = "verb") => ret[d].calls = 1

\* the service failures of start(): the executable is missing or may not be
\* run, the process has exited, or no poll found the port connectable
SupervisionFailures ==
    {[kind |-> SpawnError(o).kind, exc |-> SpawnError(o).exc, msg |-> SpawnError(o).msg] :
        o \in SpawnOutcomes \ {"ok"}}
    \cup {[kind |-> "raise", exc |-> "WebDriverException", msg |-> JStr(m)] :
            m \in {"unexpectedly exited", "Cannot connect to the Service"}}

\* C30: when start_service fails in create(), no NEW_SESSION is sent then
\* or later, start_service is not called again, and create() raises the
\* exception of start_service.
C30_ServiceFailureAbortsCreate ==
    \A d \in Drivers :
        creating[d].failed = "start_service" =>
            /\ "newSession" \notin creating[d].sent
            /\ call[d].command # "newSession" /\ op[d].name # "start_session"
            /\ creating[d].starts = 1 /\ creating[d].stage \in {"quit", "raised"}
            /\ creating[d].failure \in SupervisionFailures
            /\ creating[d].stage = "raised" => creating[d].result = creating[d].failure
C30_Witness ==
    \E d \in Drivers :
        /\ creating[d].stage = "raised" /\ creating[d].failed = "start_service"
        /\ creating[d].result =
              [kind |-> "raise", exc |-> "WebDriverException",
               msg |-> JStr("executable needs to be in PATH")]
        /\ creating[d].close = "ok"


\* the search of C31, from the windows b0 the browser had when
\* switch_to.window(n) was called: the handles whose window.name is n,
\* and the commands the search should send when it visits k handles
NamedLike(n, b0) == {i \in DOMAIN b0.handles : b0.name[b0.handles[i]] = n}
Search(n, b0, k) ==
    [j \in 1..(3 + 2 * k) |->
        CASE j = 1 -> <<"switchToWindow", n>>
          [] j = 2 -> <<"w3cGetCurrentWindowHandle", "">>
          [] j = 3 -> <<"w3cGetWindowHandles", "">>
          [] j > 3 /\ j % 2 = 0 -> <<"switchToWindow", b0.handles[(j - 2) \div 2]>>
          [] OTHER -> <<"w3cExecuteScript", "return window.name">>]
FirstLike(n, b0) == CHOOSE i \in NamedLike(n, b0) : \A j \in NamedLike(n, b0) : i <= j
SearchOf(n, b0) ==
    IF NamedLike(n, b0) # {} THEN Search(n, b0, FirstLike(n, b0))
    ELSE Append(Search(n, b0, Len(b0.handles)), <<"switchToWindow", b0.current>>)
\* switch_to.window() has ended and its direct switch had failed with
\* no-such-window
WindowSearched ==
    win.pc = "done" /\ Len(win.sent) > 0 /\ win.ex.kind = "raise"
\* the search went as C31 describes it
SearchedAsClaimed ==
    /\ win.sent = SearchOf(win.window_name, win.start)
    /\ IF NamedLike(win.window_name, win.start) # {}
       THEN /\ win.out = Returned
            /\ win.b.current = win.start.handles[FirstLike(win.window_name, win.start)]
       ELSE /\ win.out = Raised("NoSuchWindowException", JStr(win.window_name))
            /\ win.b.current = win.start.current
\* the number of the first command of the search that is not answered
\* without error (0 if there is none): the read of the current handle when
\* the current window is closed, or the call that fails in the transport
SearchCutAt ==
    IF win.fault = 2 \/ win.start.current = "closed" THEN 2
    ELSE IF win.fault > 2 /\ win.fault <= Len(SearchOf(win.window_name, win.start))
    THEN win.fault ELSE 0

VerbAnswered(d) ==
    /\ op[d].pc = "return" /\ ret[d].name \in {"verb", "element_verb"}
    /\ ret[d].http # 0
\* C32: every HTTP response whose status is not 2xx makes execute() raise
\* an exception of the WebDriver taxonomy, whatever its body: execute()
\* neither returns normally nor raises an internal error.
C32_NonSuccessRaisesTaxonomy ==
    \A d \in Drivers :
        VerbAnswered(d) /\ ret[d].http \notin 200..299 => ret[d].kind = "raise"

\* the exception kinds the table registers for a slug and for a legacy
\* code; for code 7 the kind C33 names
KindsOfSlug(slug) ==
    {ErrorCode[i].exception : i \in {j \in DOMAIN ErrorCode : ErrorCode[j].w3c_status = slug}}
KindsOfCode(code) ==
    IF code = 7 THEN {"NoSuchElementException"}
    ELSE {ErrorCode[i].exception : i \in {j \in DOMAIN ErrorCode : ErrorCode[j].json_code = code}}
\* the body of the error response a verb got, as the server sent it
ErrorBody(d) == Get(ret[d].body, "value", JNull)
\* C33: an error response whose payload names a registered error raises
\* the kind registered for it: {"value": {"error": slug, "message": m}}
\* the kind of slug with message m, {"status": code, ...} the kind of the
\* legacy code, 7 being no-such-element.
C33_PayloadDecidesKind ==
    \A d \in Drivers :
        VerbAnswered(d) /\ ret[d].http >= 400 /\ IsDict(ErrorBody(d)) =>
            /\ IsDict(Get(ErrorBody(d), "value", JNull))
                 /\ IsStr(Get(ErrorBody(d).v["value"], "error", JNull))
                 /\ KindsOfSlug(ErrorBody(d).v["value"].v["error"].v) # {}
               => /\ ret[d].kind = "raise"
                  /\ ret[d].exc \in KindsOfSlug(ErrorBody(d).v["value"].v["error"].v)
                  /\ ret[d].msg = Get(ErrorBody(d).v["value"], "message", JNull)
            /\ IsInt(Get(ErrorBody(d), "status", JNull))
                 /\ KindsOfCode(ErrorBody(d).v["status"].v) # {}
               => /\ ret[d].kind = "raise"
                  /\ ret[d].exc \in KindsOfCode(ErrorBody(d).v["status"].v)


\* C34: a request carries an Authorization header if and only if the url
\* it targets embeds userinfo; in particular none is carried once
\* server_url has been rebased to a url without userinfo.
C34_AuthorizationIffUserinfo ==
    \A d \in Drivers :
        ExecuteEnded(d) /\ ret[d].calls = 1 =>
            (ret[d].auth # "None" <=> ret[d].target.userinfo # "")

\* C36: from construction on and after every rebase, the base url of the
\* executor and the base url of the transport client equal the driver's
\* server_url, the default http://127.0.0.1:4444 included.
C36_BaseUrlsFollowServerUrl ==
    \A d \in Drivers :
        drv[d].built =>
            /\ net[d].base_url = net[d].server_url
            /\ net[d].client_base_url = net[d].server_url


HandedOut(d) ==
    IF ret[d].kind = "ok" /\ IsDict(ret[d].value) /\ IsElem(Get(ret[d].value, "value", JNull))
    THEN {ret[d].value.v["value"]} ELSE {}

C38_StopWithoutProcessIsNoOp ==
    \A d \in Drivers :
        QuitReturned(d) /\ HasService(d) /\ svc.process = "unset" =>
            /\ ret[d].stop = "ok"
            /\ ret[d].kind = "ok"


\* the quit() of create()'s finally block hands control back to create(),
\* which is about to raise what left its try block, and the Service has
\* spawned its subprocess
CreateFailsAfterSpawn(d) ==
    /\ creating[d].stage = "quit" /\ creating[d].failed # "none"
    /\ QuitReturned(d)
    /\ svc.process # "unset"

\* C39: a failed startup leaves no spawned driver process running: when
\* create() raises after the subprocess was spawned (the process exited,
\* the health check ran out, or NEW_SESSION failed), terminate() has been
\* called on the subprocess by the time create() gives control back.
C39_FailedCreateTerminates ==
    \A d \in Drivers :
        CreateFailsAfterSpawn(d) => "terminate" \in ret[d].teardown
C39_Witness ==
    \E d \in Drivers :
        /\ CreateFailsAfterSpawn(d)
        /\ creating[d].failed = "start_session"
        /\ {"terminate", "wait", "kill"} \subseteq ret[d].teardown

====
